---------------------------- MODULE Spec2Model ----------------------------
(***************************************************************************)
(* Model of the Upstox client of MyMarketTerminal                          *)
(* (src/upstox_fo_complete.py): the Auth Session Manager (UpstoxAuth) and  *)
(* the Market Data Client's request loop (UpstoxFOData._make_api_call and  *)
(* the portfolio wrappers built on it).                                    *)
(*                                                                         *)
(* Shared state is the persisted token file, the wall clock, the           *)
(* provider's token counter and the local callback port 5600.  Each        *)
(* caller (a flow of control running one operation of the client) has its *)
(* own locals in st[c]; every file, socket and HTTP operation of the code  *)
(* is one step, so that the same actions serve the synchronous             *)
(* specification (Spec: one operation at a time, spec section 5) and the   *)
(* concurrent one (SpecConc: operations of two callers interleave).        *)
(*                                                                         *)
(* Environment assumptions: file operations on an existing file succeed;   *)
(* the provider issues a new token value at every successful exchange;     *)
(* the clock is read once per step (the two time.time() reads of           *)
(* exchange_code_for_tokens, lines 153-154, fall into the same clock       *)
(* unit).                                                                  *)
(***************************************************************************)
EXTENDS Integers, Sequences, FiniteSets, TLC

\* ------------------------------------------------------------- bounds
\* Clock advances the model takes.
MaxTicks == 3
\* Tokens the provider issues (token 1 is the one a previous run left).
MaxTokens == 3

\* ---------------------------------------------------------- constants
\* 24 * 3600 seconds (upstox_fo_complete.py line 154).
TokenTTL == 24 * 3600
\* One clock advance: half a token lifetime, so that now = expires_at and
\* now > expires_at are both reached.
TickStep == 12 * 3600
\* time.time() when the model starts.
StartClock == 48 * 3600

Callers == {"c1", "c2"}

\* The provider's error code for an invalid token (line 217) and one other.
INVALID_TOKEN == "UDAPI100050"
OTHER_ERROR == "UDAPI100011"

\* What the provider (or the network) does with one GET.
ResponseKinds == {"success", "invalid_token", "other_error", "exception"}

\* The operations a caller starts.
Operations ==
    {"get_access_token", "exchange_code_for_tokens", "invalidate_token",
     "_make_api_call", "get_holdings", "get_positions"}

\* Operations that go through _make_api_call.
ApiOperations == {"_make_api_call", "get_holdings", "get_positions"}

\* Wrappers whose `except Exception` returns [] (lines 416-418, 429-431).
Swallowing == {"get_holdings", "get_positions"}

\* url of the request of each operation; _make_api_call itself takes any.
RequestsOf(o) ==
    CASE o = "get_holdings" -> {"portfolio/long-term-holdings"}
      [] o = "get_positions" -> {"portfolio/short-term-positions"}
      [] o = "_make_api_call" -> {"market-quote/quotes", "option/chain"}
      [] OTHER -> {"-"}

VARIABLES
    now,         \* time.time()
    token_file,  \* content of upstox_tokens.json: the set of records in it
    issued,      \* number of access tokens the provider has issued
    port,        \* who listens on localhost:5600: a caller, or "free"
    st           \* per caller: position and locals of the running operation

\* State of the Market Data Client's lookups and analytics.
VARIABLES
    INSTRUMENT_MASTER,  \* the Instrument Index loaded from instrument_master.json
    kr,                 \* the running call of _get_instrument_key
    today,              \* datetime.now() as [year, month, day, hour]
    ex,                 \* the running call of _get_next_expiry
    key_map,            \* UpstoxFOData.key_map: requested key -> response key
    md,                 \* the running get_spot_price / get_option_chain
    hist,               \* history: calls made, keys discovered per symbol
    an                  \* the running call of an analytics function

authVars == <<now, token_file, issued, port, st>>
keyVars == <<kr>>
expiryVars == <<today, ex>>
dataVars == <<key_map, md, hist>>
libVars == <<INSTRUMENT_MASTER, keyVars, expiryVars, dataVars, an>>
vars == <<authVars, libVars>>

\* ------------------------------------------------------------ values
NoToken == 0

NoData == [status |-> "none", errorCode |-> "", n |-> 0]

\* The JSON envelope of the n-th response of a call.
Response(kind, n) ==
    CASE kind = "success" -> [status |-> "success", errorCode |-> "", n |-> n]
      [] kind = "invalid_token" ->
            [status |-> "error", errorCode |-> INVALID_TOKEN, n |-> n]
      [] kind = "other_error" ->
            [status |-> "error", errorCode |-> OTHER_ERROR, n |-> n]
      [] OTHER -> [status |-> "exception", errorCode |-> "", n |-> n]

\* An entry of a call's history.
Event(ev, tok, req, data) ==
    [ev |-> ev, tok |-> tok, req |-> req, data |-> data]

NoResult == [kind |-> "none", exc |-> "", tok |-> NoToken, data |-> NoData,
             rows |-> "none"]
Returned(tok, data, rows) ==
    [kind |-> "return", exc |-> "", tok |-> tok, data |-> data, rows |-> rows]
Raised(exc) ==
    [kind |-> "raise", exc |-> exc, tok |-> NoToken, data |-> NoData,
     rows |-> "none"]

Idle ==
    [pc |-> "idle", op |-> "-", req |-> "-", attempt |-> 0, headers |-> NoToken,
     tokens |-> NoToken, data |-> NoData, depth |-> 0, exc |-> "",
     result |-> NoResult, log |-> << >>]

\* ------------------------------------------------------- token record
\* Mutant: the record expires when it is issued (the 24 hours are left out).
TokenRecord_NoTTL(tok, t) ==
    [access_token |-> tok, timestamp |-> t, expires_at |-> t]

\* data["timestamp"], data["expires_at"] (lines 153-154).
TokenRecord(tok, t) ==
    [access_token |-> tok, timestamp |-> t, expires_at |-> t + TokenTTL]

\* tokens.get("expires_at", 0) (line 173).
ExpiresAt(tokens) ==
    IF "expires_at" \in DOMAIN tokens THEN tokens.expires_at ELSE 0

\* Mutant: the comparison of line 173 inverted.
IsExpired_Inverted(tokens, t) == t < ExpiresAt(tokens)

\* time.time() > tokens.get("expires_at", 0) (line 173).
IsExpired(tokens, t) == t > ExpiresAt(tokens)

\* json.load of the file (lines 170-171).
LoadTokens == CHOOSE r \in token_file : TRUE

\* Mutant: the file opened in append mode.
WrittenFile_Append(file, rec) == file \cup {rec}

\* open(self.token_file, "w") ; json.dump (lines 156-157).
WrittenFile(file, rec) == {rec}

\* Mutant: the file left in place.
RemovedFile_Kept(file) == file

\* os.remove(self.token_file) (lines 175, 184).
RemovedFile(file) == {}

\* ------------------------------------------- the lookups' idle values
\* A provider id "SEGMENT|name" (or "SEGMENT:name"), kept in its parts so
\* that str.replace("|", ":") is computed, not assumed.
Key(seg, sep, name) == [seg |-> seg, sep |-> sep, name |-> name]

\* Python's None where a provider id is expected.
NoKey == Key("", "", "")

\* An Instrument Index without entries: {} (line 28).
EmptyIndex == <<>>

\* No call of _get_instrument_key has been made.
NoKeyCall == [pc |-> "idle"]

\* No call of _get_next_expiry has been made.
NoExpiryCall == [pc |-> "idle"]

\* The day the model starts on, at midnight (5 November 2026).
Midnight == [year |-> 2026, month |-> 11, day |-> 5, hour |-> 0]

\* The payload of a response as the Market Data Client sees it: the
\* envelope, the round of the operation it answers, and its "data".
NoPayload == [status |-> "none", errorCode |-> "", n |-> 0, round |-> 0,
              data |-> << >>]

\* What an operation of the Market Data Client ends with.
NoOutcome == [kind |-> "none", exc |-> "", payload |-> NoPayload,
              price_key |-> NoKey, rows |-> "none"]

\* No operation of the Market Data Client is running.
NoDataCall ==
    [pc |-> "idle", op |-> "-", symbol |-> "-", expiry_date |-> 0 - 1,
     chain_key |-> NoKey, key |-> NoKey, round |-> 0, data |-> NoPayload,
     seen |-> << >>, quote |-> << >>, keys_to_try |-> << >>,
     result |-> NoOutcome]

\* No analytics function has been called.
NoAnalytics == [pc |-> "idle"]

\* The parts of the state at rest.
AuthIdle ==
    /\ now = StartClock /\ token_file = {} /\ issued = 1 /\ port = "free"
    /\ st = [c \in Callers |-> Idle]
KeysIdle == kr = NoKeyCall
ExpiryIdle == today = Midnight /\ ex = NoExpiryCall
DataIdle ==
    /\ key_map = << >>
    /\ md = NoDataCall
    /\ hist = [calls |-> 0, discovered |-> {}]
AnalyticsIdle == an = NoAnalytics

\* The lookups at rest, as the authentication specifications keep them.
LibIdle ==
    /\ INSTRUMENT_MASTER = EmptyIndex
    /\ KeysIdle /\ ExpiryIdle /\ DataIdle /\ AnalyticsIdle

\* Files an earlier run (or an earlier version, with no expires_at) left.
InitFiles ==
    {{}} \cup
    {{TokenRecord(1, StartClock - 3 * TickStep)},
     {TokenRecord(1, StartClock - TickStep)},
     {[access_token |-> 1]}}

Init ==
    /\ now = StartClock
    /\ token_file \in InitFiles
    /\ issued = 1
    /\ port = "free"
    /\ st = [c \in Callers |-> Idle]
    /\ LibIdle

\* ----------------------------------------------- leaving an operation
Logged(s, e) == [s EXCEPT !.log = Append(@, e)]

Finish(s, res) == [s EXCEPT !.pc = "done", !.result = res]

\* An exception leaves get_access_token / _make_api_call (line 230 re-raises);
\* get_holdings and get_positions catch it and return [].
RaiseOut(s, exc) ==
    IF s.op \in Swallowing
    THEN Finish([s EXCEPT !.exc = exc], Returned(NoToken, NoData, "empty"))
    ELSE Finish([s EXCEPT !.exc = exc], Raised(exc))

\* get_access_token returns tok: to its caller, or into get_headers
\* (lines 199-204) and on to the request.
ReturnToken(s, tok) ==
    IF s.op = "get_access_token"
    THEN Finish(s, Returned(tok, NoData, "none"))
    ELSE [s EXCEPT !.headers = tok, !.pc = "request"]

\* _make_api_call returns data (line 227); the wrappers return data["data"]
\* on success and [] otherwise (lines 413-415, 426-428).
ReturnData(s, data) ==
    IF s.op \in Swallowing
    THEN Finish(s, Returned(NoToken, NoData,
                            IF data.status = "success" THEN "data" ELSE "empty"))
    ELSE Finish(s, Returned(NoToken, data, "none"))

\* ---------------------------------------------------------- actions
\* A caller starts one of the operations ops.
Start(c, ops) ==
    /\ st[c].pc = "idle"
    /\ \E o \in ops : \E r \in RequestsOf(o) :
         st' = [st EXCEPT ![c] =
                  [Idle EXCEPT !.op = o, !.req = r,
                               !.attempt = IF o \in ApiOperations THEN 1 ELSE 0,
                               !.pc = CASE o = "exchange_code_for_tokens" -> "exchange_post"
                                        [] o = "invalidate_token" -> "invalidate"
                                        [] OTHER -> "gat_exists"]]
    /\ UNCHANGED <<now, token_file, issued, port, libVars>>

\* The synchronous host (spec section 5): one operation at a time.
BeginSync(c) ==
    /\ \A d \in Callers : st[d].pc = "idle"
    /\ Start(c, Operations)

\* A host that runs Market Data Client calls of two callers concurrently.
BeginConcurrent(c) == Start(c, ApiOperations)

\* get_access_token, line 163: os.path.exists(self.token_file).
GetAccessToken_Exists(c) ==
    /\ st[c].pc = "gat_exists"
    /\ st' = [st EXCEPT ![c].pc =
                IF token_file = {} THEN "auth_bind" ELSE "gat_read"]
    /\ UNCHANGED <<now, token_file, issued, port, libVars>>

\* What get_access_token does with the record it loaded (lines 173-178).
AfterLoad(s, tokens) ==
    IF IsExpired(tokens, now)
    THEN [s EXCEPT !.pc = "gat_remove"]
    ELSE ReturnToken(
           Logged(s, Event("token_from_file", tokens.access_token, "-", NoData)),
           tokens.access_token)

\* get_access_token, lines 170-178: load the record, check its expiry.
GetAccessToken_Read(c) ==
    /\ st[c].pc = "gat_read"
    /\ st' = [st EXCEPT ![c] =
                IF token_file = {}
                THEN RaiseOut(st[c], "FileNotFoundError")
                ELSE AfterLoad(st[c], LoadTokens)]
    /\ UNCHANGED <<now, token_file, issued, port, libVars>>

\* get_access_token, lines 175-176: remove the expired file and start over.
GetAccessToken_Remove(c) ==
    /\ st[c].pc = "gat_remove"
    /\ IF token_file = {}
       THEN /\ st' = [st EXCEPT ![c] = RaiseOut(st[c], "FileNotFoundError")]
            /\ UNCHANGED token_file
       ELSE /\ token_file' = RemovedFile(token_file)
            /\ st' = [st EXCEPT ![c] =
                        [Logged(st[c], Event("remove_expired", LoadTokens.access_token, "-",
                                             NoData))
                           EXCEPT !.pc = "gat_exists", !.depth = @ + 1]]
    /\ UNCHANGED <<now, issued, port, libVars>>

\* get_auth_code, lines 129-131: bind localhost:5600, open the browser.
GetAuthCode_Bind(c) ==
    /\ st[c].pc = "auth_bind"
    /\ IF port # "free"
       THEN /\ st' = [st EXCEPT ![c] = RaiseOut(st[c], "OSError")]
            /\ UNCHANGED port
       ELSE /\ port' = c
            /\ st' = [st EXCEPT ![c] =
                        [Logged(st[c], Event("auth_round_trip", NoToken, "-", NoData))
                           EXCEPT !.pc = "auth_wait"]]
    /\ UNCHANGED <<now, token_file, issued, libVars>>

\* What get_access_token does with the code (lines 164-167).
AfterAuthCode(s, code) ==
    IF code = "none"
    THEN RaiseOut(s, "Authorization failed")
    ELSE [s EXCEPT !.pc = "exchange_post"]

\* get_auth_code, lines 132-134: the callback arrives, with a code or none.
GetAuthCode_HandleRequest(c) ==
    /\ st[c].pc = "auth_wait"
    /\ port' = "free"
    /\ \E code \in {"none", "code"} :
         st' = [st EXCEPT ![c] = AfterAuthCode(st[c], code)]
    /\ UNCHANGED <<now, token_file, issued, libVars>>

\* Mutant: the file opened for writing before the reply is examined.
FileAfterRefusal_Truncated(file) == {}

\* Lines 150-151: the RuntimeError is raised before the file is opened
\* (line 156).
FileAfterRefusal(file) == file

\* exchange_code_for_tokens, lines 147-151: the provider answers with an
\* access token or without one.
ExchangeCode_Post(c) ==
    /\ st[c].pc = "exchange_post"
    /\ \E granted \in BOOLEAN :
         /\ granted => issued < MaxTokens
         /\ IF granted
            THEN /\ issued' = issued + 1
                 /\ st' = [st EXCEPT ![c].tokens = issued + 1,
                                     ![c].pc = "exchange_write"]
                 /\ UNCHANGED token_file
            ELSE /\ st' = [st EXCEPT ![c] = RaiseOut(st[c], "Token exchange failed")]
                 /\ token_file' = FileAfterRefusal(token_file)
                 /\ UNCHANGED issued
    /\ UNCHANGED <<now, port, libVars>>

\* exchange_code_for_tokens returns data (line 160): to its caller, or to
\* get_access_token, which returns tokens["access_token"] (line 168).
AfterWrite(s, tok) ==
    IF s.op = "exchange_code_for_tokens"
    THEN Finish(s, Returned(tok, NoData, "none"))
    ELSE ReturnToken(s, tok)

\* exchange_code_for_tokens, lines 153-160: stamp and persist the record.
ExchangeCode_Write(c) ==
    /\ st[c].pc = "exchange_write"
    /\ token_file' = WrittenFile(token_file, TokenRecord(st[c].tokens, now))
    /\ st' = [st EXCEPT ![c] =
                AfterWrite(
                  Logged(st[c], Event("exchange", st[c].tokens, "-", NoData)),
                  st[c].tokens)]
    /\ UNCHANGED <<now, issued, port, libVars>>

\* Mutant: every error status taken for an invalid token.
IsTokenInvalid_AnyError(data) == data.status = "error"

\* data.get("status") == "error" and errors[0].errorCode == "UDAPI100050"
\* (lines 215-217).
IsTokenInvalid(data) ==
    data.status = "error" /\ data.errorCode = INVALID_TOKEN

\* Mutant: the retry's response is examined too (a loop instead of one retry).
AfterResponse_Loop(s, data) ==
    IF IsTokenInvalid(data)
    THEN [s EXCEPT !.data = data, !.pc = "invalidate"]
    ELSE ReturnData([s EXCEPT !.data = data], data)

\* _make_api_call after a response (lines 211-227): only the first response
\* is examined for the invalid-token code; the retry's response is returned.
AfterResponse(s, data) ==
    IF s.attempt = 1 /\ IsTokenInvalid(data)
    THEN [s EXCEPT !.data = data, !.pc = "invalidate"]
    ELSE ReturnData([s EXCEPT !.data = data], data)

\* The request the code sends: the same url and params both times
\* (lines 210, 223).
RequestSent(s) == s.req

\* _make_api_call, lines 210-212 and 223-225: requests.get and its answer.
MakeApiCall_Request(c) ==
    /\ st[c].pc = "request"
    /\ \E kind \in ResponseKinds :
         LET s == st[c]
             n == Cardinality({i \in 1..Len(s.log) : s.log[i].ev = "http"}) + 1
             data == Response(kind, n)
             s1 == Logged(s, Event("http", s.headers, RequestSent(s), data))
         IN st' = [st EXCEPT ![c] =
                     IF kind = "exception"
                     THEN RaiseOut(s1, "RequestException")
                     ELSE AfterResponse(s1, data)]
    /\ UNCHANGED <<now, token_file, issued, port, libVars>>

\* Mutant: the retry reuses the headers of the first attempt (line 222 left
\* out).
AfterInvalidate_OldHeaders(s) ==
    IF s.op = "invalidate_token"
    THEN Finish(s, Returned(NoToken, NoData, "none"))
    ELSE [s EXCEPT !.attempt = 2, !.pc = "request"]

\* After invalidate_token (line 219): back to get_headers for the retry
\* (line 222), or back to the caller of invalidate_token.
AfterInvalidate(s) ==
    IF s.op = "invalidate_token"
    THEN Finish(s, Returned(NoToken, NoData, "none"))
    ELSE [s EXCEPT !.attempt = 2, !.pc = "gat_exists"]

\* invalidate_token, lines 180-187: remove the file if it exists; a failure
\* of the removal is logged, never raised.
InvalidateToken(c) ==
    /\ st[c].pc = "invalidate"
    /\ token_file' = RemovedFile(token_file)
    /\ st' = [st EXCEPT ![c] =
                AfterInvalidate(
                  Logged(st[c], Event("invalidate",
                                      IF token_file = {} THEN NoToken
                                      ELSE LoadTokens.access_token,
                                      "-", NoData)))]
    /\ UNCHANGED <<now, issued, port, libVars>>

\* The caller takes the result; the next operation may start.
Return(c) ==
    /\ st[c].pc = "done"
    /\ st' = [st EXCEPT ![c] = Idle]
    /\ UNCHANGED <<now, token_file, issued, port, libVars>>

\* The wall clock advances.
Tick ==
    /\ now + TickStep <= StartClock + MaxTicks * TickStep
    /\ now' = now + TickStep
    /\ UNCHANGED <<token_file, issued, port, st, libVars>>

Step(c) ==
    \/ GetAccessToken_Exists(c)
    \/ GetAccessToken_Read(c)
    \/ GetAccessToken_Remove(c)
    \/ GetAuthCode_Bind(c)
    \/ GetAuthCode_HandleRequest(c)
    \/ ExchangeCode_Post(c)
    \/ ExchangeCode_Write(c)
    \/ MakeApiCall_Request(c)
    \/ InvalidateToken(c)
    \/ Return(c)

Next == Tick \/ \E c \in Callers : BeginSync(c) \/ Step(c)

Spec == Init /\ [][Next]_vars

NextConc == \E c \in Callers : BeginConcurrent(c) \/ Step(c)

SpecConc == Init /\ [][NextConc]_vars

\* ------------------------------------------------- reading a history
\* The HTTP attempts of the running (or just finished) call, in order.
Https(s) == SelectSeq(s.log, LAMBDA e : e.ev = "http")

Has(s, ev) == \E i \in 1..Len(s.log) : s.log[i].ev = ev

Persisted(tok) == \E r \in token_file : r.access_token = tok

AuthFailures == {"Authorization failed", "Token exchange failed"}

\* In this step get_access_token hands a token read from the file to its
\* caller (the return of line 178).
ReturnsFromFile(c) ==
    /\ st[c].pc = "gat_read"
    /\ \/ st'[c].pc = "request"
       \/ st'[c].pc = "done" /\ st'[c].result.kind = "return"
                             /\ st'[c].op = "get_access_token"

ReturnedToken(c) ==
    IF st'[c].pc = "request" THEN st'[c].headers ELSE st'[c].result.tok

\* ------------------------------------------------------------ claims

\* One step of caller c, as C1 constrains it.
C1_Step(c) ==
    /\ ReturnsFromFile(c) =>
         /\ token_file # {}
         /\ now <= ExpiresAt(LoadTokens)
         /\ ReturnedToken(c) = LoadTokens.access_token
    /\ (st[c].pc = "gat_read" /\ st'[c] # st[c] /\ token_file # {}
          /\ now > ExpiresAt(LoadTokens)) =>
         /\ st'[c].pc = "gat_remove"
         /\ st'[c].headers = st[c].headers
         /\ st'[c].result = NoResult
    /\ (st[c].pc = "gat_remove" /\ st'[c] # st[c]) => token_file' = {}

\* C1: get_access_token never returns a stale token.  Whenever it returns
\* a value read from the persisted record, now <= expires_at held at the
\* check and the value is that record's access_token; a record whose
\* expires_at is in the past (or which has none: expires_at counts as 0) is
\* not returned but removed, whatever exchanges, invalidations and clock
\* advances came before.
C1_NeverStale == [][\A c \in Callers : C1_Step(c)]_vars

\* C1 witness: a token issued in this run is returned from the file at the
\* very last moment of its life (now = expires_at).
C1_Witness ==
    \E c \in Callers :
        /\ st[c].pc = "done" /\ st[c].op = "get_access_token"
        /\ st[c].result.kind = "return" /\ st[c].result.tok >= 2
        /\ st[c].log = <<Event("token_from_file", st[c].result.tok, "-", NoData)>>
        /\ token_file # {} /\ now = ExpiresAt(LoadTokens)

\* The call of get_access_token found no valid persisted token: it went on
\* to the authorization round trip.
FoundNoValidToken(s) == Has(s, "auth_round_trip")

\* C2: when the persisted token is expired by wall clock or absent,
\* get_access_token fails (AuthRequired): it returns no token in that call
\* and obtains none by itself.
C2_FailsWithAuthRequired ==
    \A c \in Callers :
        (st[c].pc = "done" /\ st[c].op = "get_access_token"
           /\ FoundNoValidToken(st[c])) => st[c].result.kind = "raise"

\* Every response of the call carried the invalid-token code.
AllInvalid(s) ==
    \A i \in 1..Len(Https(s)) : IsTokenInvalid(Https(s)[i].data)

\* C3, as stated: against a provider that answers every request with the
\* invalid-token code, one _make_api_call issues exactly two HTTP requests
\* and returns the second error payload.
C3_ExactlyTwoRequests ==
    \A c \in Callers :
        LET s == st[c] IN
        (s.pc = "done" /\ s.op \in ApiOperations /\ Len(Https(s)) >= 1
           /\ AllInvalid(s)) =>
             /\ Len(Https(s)) = 2
             /\ s.op = "_make_api_call" =>
                    s.result = Returned(NoToken, Https(s)[2].data, "none")

\* C3 amended: against such a provider one _make_api_call never issues a
\* third request.  It issues exactly two and returns the second error
\* payload when a token is obtained for the retry; when the authorization
\* for the retry fails, the call ends after one request with that
\* authorization failure.
C3_AtMostTwoRequests ==
    \A c \in Callers :
        LET s == st[c] IN
        /\ Len(Https(s)) <= 2
        /\ (s.pc = "done" /\ s.op \in ApiOperations /\ Len(Https(s)) >= 1
              /\ AllInvalid(s)) =>
             \/ /\ Len(Https(s)) = 2
                /\ s.op = "_make_api_call" =>
                       s.result = Returned(NoToken, Https(s)[2].data, "none")
             \/ /\ Len(Https(s)) = 1
                /\ s.exc \in AuthFailures
                /\ s.op = "_make_api_call" => s.result = Raised(s.exc)

\* C3 witness: a finished _make_api_call whose two requests were both
\* answered with the invalid-token code.
C3_Witness ==
    \E c \in Callers :
        /\ st[c].pc = "done" /\ st[c].op = "_make_api_call"
        /\ Len(Https(st[c])) = 2 /\ AllInvalid(st[c])
        /\ st[c].result.data.n = 2

\* Positions of the HTTP attempts in the history of a call.
HttpAt(s) == {i \in 1..Len(s.log) : s.log[i].ev = "http"}

\* Events by which get_access_token hands out a token.
TokenEvents == {"token_from_file", "exchange"}

C5_RejectedTokenDiscarded ==
    \A c \in Callers :
        LET s == st[c] IN
        (s.pc = "done" /\ s.op \in ApiOperations) =>
            \A i \in HttpAt(s) :
                IsTokenInvalid(s.log[i].data) => ~Persisted(s.log[i].tok)

\* C6: a response with status error and a code other than the invalid-token
\* code is not retried.  Exactly one request is issued, the token file is
\* not touched after it (no invalidation; the token the request carried is
\* still the persisted one) and _make_api_call returns the provider's
\* payload as it came.
C6_NonAuthErrorNotRetried ==
    \A c \in Callers :
        LET s == st[c]
            h == Https(s)
        IN (s.pc = "done" /\ s.op \in ApiOperations /\ Len(h) >= 1
              /\ h[1].data.status = "error"
              /\ h[1].data.errorCode # INVALID_TOKEN) =>
             /\ Len(h) = 1
             /\ s.log[Len(s.log)].ev = "http"
             /\ ~Has(s, "invalidate")
             /\ Persisted(h[1].tok)
             /\ s.exc = ""
             /\ s.op = "_make_api_call" =>
                    s.result = Returned(NoToken, h[1].data, "none")

\* C6 witness: a finished _make_api_call whose request was answered with
\* another error code.
C6_Witness ==
    \E c \in Callers :
        /\ st[c].pc = "done" /\ st[c].op = "_make_api_call"
        /\ Len(Https(st[c])) = 1
        /\ Https(st[c])[1].data.errorCode = OTHER_ERROR
        /\ st[c].result.data.errorCode = OTHER_ERROR

\* C7: when the authorization fails while get_holdings or
\* get_positions runs, the caller observes an authentication failure, not
\* an ordinary empty result.
C7_AuthFailureSurfaces ==
    \A c \in Callers :
        LET s == st[c] IN
        (s.pc = "done" /\ s.op \in {"get_holdings", "get_positions"}
           /\ s.exc \in AuthFailures) =>
            /\ s.result.kind = "raise"
            /\ s.result.exc \in AuthFailures

\* One step of caller c, as C8 constrains it.
C8_Step(c) ==
    /\ (st[c].pc = "exchange_write" /\ st'[c] # st[c]) =>
         /\ token_file' = {[access_token |-> st[c].tokens, timestamp |-> now,
                            expires_at |-> now + 24 * 3600]}
         /\ st'[c].op = "exchange_code_for_tokens" =>
                st'[c].result = Returned(st[c].tokens, NoData, "none")
    /\ (st[c].pc = "gat_exists" /\ st'[c] # st[c] /\ token_file # {}) =>
         /\ st'[c].pc = "gat_read"
         /\ st'[c].log = st[c].log
    /\ (st[c].pc = "gat_read" /\ st'[c] # st[c] /\ token_file # {}
          /\ "expires_at" \in DOMAIN LoadTokens
          /\ now <= LoadTokens.expires_at) =>
         /\ ReturnsFromFile(c)
         /\ ReturnedToken(c) = LoadTokens.access_token
         /\ ~Has(st'[c], "auth_round_trip") \/ Has(st[c], "auth_round_trip")
         /\ token_file' = token_file

\* C8: after exchange_code_for_tokens succeeds the persisted record holds
\* the new access token with expires_at = timestamp + 24 h, and every
\* get_access_token that finds this record while now <= expires_at (the
\* file not invalidated in between) returns that token and starts no
\* authorization round trip.
C8_ExchangedTokenServed ==
    /\ [](\A r \in token_file :
            "expires_at" \in DOMAIN r => r.expires_at = r.timestamp + 24 * 3600)
    /\ [][\A c \in Callers : C8_Step(c)]_vars

\* C8 witness: the clock has advanced since the exchange, and
\* get_access_token returns the exchanged token without a round trip.
C8_Witness ==
    \E c \in Callers :
        /\ st[c].pc = "done" /\ st[c].op = "get_access_token"
        /\ token_file # {}
        /\ "timestamp" \in DOMAIN LoadTokens
        /\ LoadTokens.timestamp >= StartClock
        /\ now > LoadTokens.timestamp /\ now < LoadTokens.expires_at
        /\ st[c].result = Returned(LoadTokens.access_token, NoData, "none")
        /\ ~Has(st[c], "auth_round_trip")

\* One step of caller c, as C9 constrains it.
C9_Step(c) ==
    /\ (st[c].pc = "exchange_write" /\ st'[c] # st[c]) =>
         /\ Cardinality(token_file') = 1
         /\ \A r \in token_file' : r.access_token = st[c].tokens
    /\ (st[c].pc = "invalidate" /\ st'[c] # st[c]) =>
         /\ token_file' = {}
         /\ st'[c].exc = ""
         /\ st'[c].result.kind # "raise"
         /\ st'[c].op = "invalidate_token" =>
                st'[c].pc = "done" /\ st'[c].result.kind = "return"
    /\ (st[c].pc = "gat_exists" /\ st'[c] # st[c] /\ token_file = {}) =>
         st'[c].pc = "auth_bind"

ReauthorizedAfterRejection(s, tok) ==
    \E i, j \in 1..Len(s.log) :
        /\ i < j
        /\ s.log[i].ev = "http" /\ s.log[i].tok = tok
        /\ IsTokenInvalid(s.log[i].data)
        /\ s.log[j].ev = "auth_round_trip"

\* C10: when two concurrent Market Data Client calls are rejected
\* for the same persisted token, only one re-authorization round trip is
\* performed for that token.
C10_SingleReauthorization ==
    \A c, d \in Callers : \A tok \in 1..MaxTokens :
        (c # d /\ st[c].pc \notin {"idle", "done"}
               /\ st[d].pc \notin {"idle", "done"}) =>
            ~(/\ ReauthorizedAfterRejection(st[c], tok)
              /\ ReauthorizedAfterRejection(st[d], tok))

\* ======================================================== the calendar
\* Dates are counted in days from 1 January of EpochYear (day 0), the way
\* date.toordinal() counts them from year 1; a 'YYYY-MM-DD' string is
\* represented by the day number of its date, which orders the same way.
EpochYear == 2026
\* date(2026, 1, 1).weekday(): a Thursday (Monday is 0).
EpochWeekday == 3
\* Years the model's dates fall in.
Years == EpochYear .. EpochYear + 3

IsLeap(y) == (y % 4 = 0 /\ y % 100 # 0) \/ y % 400 = 0

\* calendar.monthrange(y, m)[1].
DaysInMonth(y, m) ==
    CASE m \in {4, 6, 9, 11} -> 30
      [] m = 2 -> IF IsLeap(y) THEN 29 ELSE 28
      [] OTHER -> 31

RECURSIVE DaysBeforeYear(_)
DaysBeforeYear(y) ==
    IF y <= EpochYear THEN 0
    ELSE DaysBeforeYear(y - 1) + (IF IsLeap(y - 1) THEN 366 ELSE 365)

RECURSIVE DaysBeforeMonth(_, _)
DaysBeforeMonth(y, m) ==
    IF m <= 1 THEN 0 ELSE DaysBeforeMonth(y, m - 1) + DaysInMonth(y, m - 1)

\* The day number of date(y, m, d).
Ordinal(y, m, d) == DaysBeforeYear(y) + DaysBeforeMonth(y, m) + d - 1

\* date.weekday(): Monday is 0, Thursday is 3.
Weekday(o) == (o + EpochWeekday) % 7

\* The date of a day number, as [year, month, day].
FromOrdinal(o) ==
    LET y == CHOOSE yy \in Years :
                 DaysBeforeYear(yy) <= o /\ o < DaysBeforeYear(yy + 1)
        r == o - DaysBeforeYear(y)
        m == CHOOSE mm \in 1 .. 12 :
                 /\ DaysBeforeMonth(y, mm) <= r
                 /\ r < DaysBeforeMonth(y, mm) + DaysInMonth(y, mm)
    IN  [year |-> y, month |-> m, day |-> r - DaysBeforeMonth(y, m) + 1]

\* A datetime is [year, month, day, hour]; .date() of it as a day number.
DateOf(dt) == Ordinal(dt.year, dt.month, dt.day)

\* ==================================================== the Key Resolver
\* _get_instrument_key (lines 42-98) over the Instrument Index that
\* preprocess_nse_data.py writes: a mapping from symbol to an entry with a
\* SPOT descriptor (or null) and four contract lists, each sorted by
\* (expiry, strike).

\* ------------------------------------------------------------- bounds
\* Contracts in the option and futures lists of an index, together.
MaxContracts == 2

\* ------------------------------------------------------------- values
\* Python's None for expiry_date, strike_price and option_type.
NoneDate == 0 - 1
NoneStrike == 0 - 1
NoneType == "None"

\* bool(x) of an optional argument: None and 0 are falsy.
TruthyDate(d) == d # NoneDate
TruthyStrike(k) == k # NoneStrike /\ k # 0
TruthyType(t) == t # NoneType

\* str.startswith("^") and str.endswith(".NS") on the symbols of the model.
StartsWithCaret(s) == s \in {"^NSEI", "^NSEBANK"}
EndsWithNS(s) == s \in {"RELIANCE.NS", "TCS.NS", "INFY.NS", "NIFTY_MIDCAP_100.NS"}
\* f"{symbol}.NS"
WithNS(s) ==
    CASE s = "RELIANCE" -> "RELIANCE.NS"
      [] s = "TCS" -> "TCS.NS"
      [] s = "INFY" -> "INFY.NS"

\* Lines 56-64: the symbol under which the index is searched.
NormalizedSymbol(symbol) ==
    CASE symbol = "Nifty 50" -> "^NSEI"
      [] symbol = "Bank Nifty" -> "^NSEBANK"
      [] symbol = "Nifty Midcap 100" -> "NIFTY_MIDCAP_100.NS"
      [] ~StartsWithCaret(symbol) /\ ~EndsWithNS(symbol) -> WithNS(symbol)
      [] OTHER -> symbol

\* A null SPOT field, and isinstance(spot_data, dict) (line 77).
NoSpot == [null |-> TRUE]
IsDict(x) == x # NoSpot

\* The outcome of a call: a provider id or None, or an exception.
KeyReturned(k) == [key |-> k, exc |-> "-"]
KeyRaised(e) == [key |-> NoKey, exc |-> e]

\* Lines 75-79, with a subscript in place of the isinstance test.
SpotKey_Unchecked(spot_data) ==
    IF IsDict(spot_data) THEN KeyReturned(spot_data.instrument_key)
    ELSE KeyRaised("TypeError")

\* Lines 75-79: the SPOT descriptor's instrument_key, or None.
SpotKey(spot_data) ==
    IF IsDict(spot_data) THEN KeyReturned(spot_data.instrument_key)
    ELSE KeyReturned(NoKey)

\* Positions of a contract list whose contract satisfies the loop's test.
OptionMatches(options, expiry_date, strike_price, option_type) ==
    {i \in 1 .. Len(options) :
        /\ options[i].expiry = expiry_date
        /\ options[i].strike = strike_price
        /\ options[i].option_type = option_type}

FutureMatches(futures, expiry_date) ==
    {i \in 1 .. Len(futures) : futures[i].expiry = expiry_date}

\* `for c in list: if test: return c.get("instrument_key")`: the first hit.
FirstKey(list, hits) ==
    IF hits = {} THEN NoKey
    ELSE list[CHOOSE i \in hits : \A j \in hits : i <= j].instrument_key

\* Lines 66-72: the key of the entry, "" when line 72 returns None.
EntryOf(master, symbol) ==
    IF NormalizedSymbol(symbol) \in DOMAIN master THEN NormalizedSymbol(symbol)
    ELSE IF symbol \in DOMAIN master THEN symbol
    ELSE ""

\* Lines 74-98: the lookup in the entry of the symbol.
KeyInEntry(symbol_data, instrument_type, expiry_date, strike_price, option_type) ==
    IF instrument_type = "SPOT" THEN SpotKey(symbol_data.SPOT)
    ELSE
      LET opt == IF /\ instrument_type \in {"OPTIDX", "OPTSTK"}
                    /\ TruthyDate(expiry_date)
                    /\ TruthyStrike(strike_price)
                    /\ TruthyType(option_type)
                 THEN FirstKey(symbol_data[instrument_type],
                               OptionMatches(symbol_data[instrument_type],
                                             expiry_date, strike_price, option_type))
                 ELSE NoKey
          fut == IF instrument_type \in {"FUTIDX", "FUTSTK"} /\ TruthyDate(expiry_date)
                 THEN FirstKey(symbol_data[instrument_type],
                               FutureMatches(symbol_data[instrument_type], expiry_date))
                 ELSE NoKey
      IN  KeyReturned(IF opt # NoKey THEN opt ELSE fut)

\* _get_instrument_key (lines 42-98).
GetInstrumentKey(master, symbol, instrument_type, expiry_date, strike_price, option_type) ==
    IF master = EmptyIndex THEN KeyReturned(NoKey)
    ELSE IF EntryOf(master, symbol) = "" THEN KeyReturned(NoKey)
    ELSE KeyInEntry(master[EntryOf(master, symbol)], instrument_type,
                    expiry_date, strike_price, option_type)

\* The index after a lookup that takes the entry out of it (dict.pop).
MasterAfterLookup_Pop(master, symbol) ==
    [k \in DOMAIN master \ {EntryOf(master, symbol)} |-> master[k]]

\* The index after a lookup: lines 42-98 only read INSTRUMENT_MASTER.
MasterAfterLookup(master, symbol) == master

\* ------------------------------------------------ indexes and inputs
\* The two expiries of the contracts (10 and 26 November 2026).
KeyExpiries == {Ordinal(2026, 11, 10), Ordinal(2026, 11, 26)}
KeyStrikes == {0, 100}

\* instrument_key values of F&O contracts, in list position.
FoNames == <<"43881", "43882", "43883", "43884", "43885", "43886">>
FoKey(i) == Key("NSE_FO", "|", FoNames[i])

\* (expiry, strike) order of preprocess_nse_data.py line 148.
SortedOptions(s) ==
    \A i, j \in 1 .. Len(s) :
        i < j => \/ s[i].expiry < s[j].expiry
                 \/ s[i].expiry = s[j].expiry /\ s[i].strike <= s[j].strike

\* Option lists of n contracts; the ids follow the list position.
OptionLists(n) ==
    {[i \in 1 .. n |->
        [expiry |-> s[i].expiry, strike |-> s[i].strike,
         option_type |-> s[i].option_type, instrument_key |-> FoKey(i),
         weekly |-> FALSE, monthly |-> TRUE]] :
     s \in {t \in [1 .. n -> [expiry : KeyExpiries, strike : KeyStrikes,
                              option_type : {"CE", "PE"}]] :
               SortedOptions(t)}}

\* Futures lists of n contracts; ids after those of the `base` options.
FutureLists(n, base) ==
    {[i \in 1 .. n |->
        [expiry |-> s[i], instrument_key |-> FoKey(base + i),
         weekly |-> FALSE, monthly |-> TRUE]] :
     s \in {t \in [1 .. n -> KeyExpiries] : \A i, j \in 1 .. n : i < j => t[i] <= t[j]}}

\* The SPOT descriptor of an entry.
SpotOf(k) ==
    [instrument_key |->
        CASE k = "^NSEI" -> Key("NSE_INDEX", "|", "Nifty 50")
          [] k = "^NSEBANK" -> Key("NSE_INDEX", "|", "Nifty Bank")
          [] OTHER -> Key("NSE_EQ", "|", "INE002A01018")]

\* The entry of key k (preprocess_nse_data.py lines 96-102, 110-135).
Entry(k, spot, opts, futs) ==
    [SPOT |-> IF spot THEN SpotOf(k) ELSE NoSpot,
     OPTIDX |-> IF StartsWithCaret(k) THEN opts ELSE <<>>,
     FUTIDX |-> IF StartsWithCaret(k) THEN futs ELSE <<>>,
     OPTSTK |-> IF StartsWithCaret(k) THEN <<>> ELSE opts,
     FUTSTK |-> IF StartsWithCaret(k) THEN <<>> ELSE futs]

\* Key sets of the indexes: canonical symbols (spec section 6).
KeySets == {{"^NSEI"}, {"^NSEI", "RELIANCE.NS"}}

\* The indexes of the model: empty, or entries that hold a SPOT descriptor
\* or a contract (preprocess_nse_data.py line 146 drops the others).
KeyIndexes ==
    {EmptyIndex} \cup
    {[k \in ks |-> Entry(k, spot, opts, futs)] :
        ks \in KeySets,
        spot \in BOOLEAN,
        opts \in UNION {OptionLists(n) : n \in 0 .. MaxContracts},
        futs \in UNION {FutureLists(n, MaxContracts) : n \in 0 .. MaxContracts}}

KeySymbols == {"Nifty 50", "^NSEI", "RELIANCE"}
KeyKinds == {"SPOT", "OPTIDX", "OPTSTK", "FUTIDX", "FUTSTK", "EQ"}
OptionKinds == {"OPTIDX", "OPTSTK"}
FutureKinds == {"FUTIDX", "FUTSTK"}

\* ------------------------------------------------------------ actions
InitKeys ==
    /\ AuthIdle /\ ExpiryIdle /\ DataIdle /\ AnalyticsIdle
    /\ INSTRUMENT_MASTER \in
         {m \in KeyIndexes :
            \A k \in DOMAIN m :
               LET n == Len(m[k].OPTIDX) + Len(m[k].OPTSTK)
                          + Len(m[k].FUTIDX) + Len(m[k].FUTSTK)
               IN  n <= MaxContracts /\ (n > 0 \/ IsDict(m[k].SPOT))}
    /\ kr = NoKeyCall

\* A caller calls _get_instrument_key.
GetInstrumentKey_Call ==
    \E symbol \in KeySymbols, instrument_type \in KeyKinds,
       expiry_date \in KeyExpiries \cup {NoneDate},
       strike_price \in KeyStrikes \cup {NoneStrike},
       option_type \in {"CE", "PE", NoneType} :
        /\ kr.pc = "idle"
        /\ kr' = [pc |-> "returned", symbol |-> symbol,
                  instrument_type |-> instrument_type,
                  expiry_date |-> expiry_date, strike_price |-> strike_price,
                  option_type |-> option_type,
                  result |-> GetInstrumentKey(INSTRUMENT_MASTER, symbol,
                                instrument_type, expiry_date, strike_price,
                                option_type),
                  again |-> KeyReturned(NoKey)]
        /\ INSTRUMENT_MASTER' = MasterAfterLookup(INSTRUMENT_MASTER, symbol)
        /\ UNCHANGED <<authVars, expiryVars, dataVars, an>>

\* The caller repeats the call with the same arguments.
GetInstrumentKey_Again ==
    /\ kr.pc = "returned"
    /\ kr' = [kr EXCEPT !.pc = "repeated",
                        !.again = GetInstrumentKey(INSTRUMENT_MASTER, kr.symbol,
                                     kr.instrument_type, kr.expiry_date,
                                     kr.strike_price, kr.option_type)]
    /\ INSTRUMENT_MASTER' = MasterAfterLookup(INSTRUMENT_MASTER, kr.symbol)
    /\ UNCHANGED <<authVars, expiryVars, dataVars, an>>

NextKeys == GetInstrumentKey_Call \/ GetInstrumentKey_Again

SpecKeys == InitKeys /\ [][NextKeys]_vars

\* ------------------------------------------------------------ C11-C13
\* The entry a call looks in: that of the normalized symbol.
HasEntry(c) == NormalizedSymbol(c.symbol) \in DOMAIN INSTRUMENT_MASTER
CallEntry(c) == INSTRUMENT_MASTER[NormalizedSymbol(c.symbol)]

C11_Step == INSTRUMENT_MASTER' = INSTRUMENT_MASTER

C12_NotFoundIsAValue ==
    kr.pc # "idle" =>
        /\ kr.result.exc = "-"
        /\ (\/ INSTRUMENT_MASTER = EmptyIndex
            \/ ~HasEntry(kr)
            \/ kr.instrument_type \notin {"SPOT"} \cup OptionKinds \cup FutureKinds
            \/ /\ kr.instrument_type \in OptionKinds
               /\ \/ kr.expiry_date = NoneDate
                  \/ kr.strike_price = NoneStrike
                  \/ kr.option_type = NoneType)
             => kr.result.key = NoKey
        /\ (kr.instrument_type = "SPOT" /\ HasEntry(kr)) =>
              kr.result.key = IF CallEntry(kr).SPOT = NoSpot THEN NoKey
                              ELSE CallEntry(kr).SPOT.instrument_key

\* SPOT was asked of an entry whose SPOT field is null.
C12_Witness ==
    /\ kr.pc = "returned"
    /\ kr.instrument_type = "SPOT"
    /\ HasEntry(kr)
    /\ CallEntry(kr).SPOT = NoSpot
    /\ kr.result = KeyReturned(NoKey)

\* C13: for an option kind the call returns an id exactly when the list of
\* that kind holds a contract with the requested (expiry, strike, type),
\* and then the id of the first such contract in list order; for a futures
\* kind the same on the expiry alone; this for every strike in the index,
\* strike 0 included.
C13_FirstExactMatch ==
    (kr.pc # "idle" /\ HasEntry(kr)) =>
        /\ (/\ kr.instrument_type \in OptionKinds
            /\ kr.expiry_date # NoneDate
            /\ kr.strike_price # NoneStrike
            /\ kr.option_type # NoneType) =>
              LET list == CallEntry(kr)[kr.instrument_type]
                  hits == {i \in 1 .. Len(list) :
                             /\ list[i].expiry = kr.expiry_date
                             /\ list[i].strike = kr.strike_price
                             /\ list[i].option_type = kr.option_type}
              IN  /\ (kr.result.key # NoKey) <=> (hits # {})
                  /\ \A i \in hits :
                        (\A j \in hits : i <= j) =>
                            kr.result.key = list[i].instrument_key
        /\ (kr.instrument_type \in FutureKinds /\ kr.expiry_date # NoneDate) =>
              LET list == CallEntry(kr)[kr.instrument_type]
                  hits == {i \in 1 .. Len(list) : list[i].expiry = kr.expiry_date}
              IN  /\ (kr.result.key # NoKey) <=> (hits # {})
                  /\ \A i \in hits :
                        (\A j \in hits : i <= j) =>
                            kr.result.key = list[i].instrument_key

\* ================================================= the Expiry Resolver
\* _get_next_expiry (lines 839-921) and _get_fallback_expiry (lines
\* 923-959).  Both read datetime.now(); the two reads of one call fall
\* into the same hour.

\* ------------------------------------------------------------- bounds
\* Days of the calendar window, from 1 November 2026.
MaxDays == 490

\* `"Nifty" in symbol or "Bank Nifty" in symbol` (lines 864, 866, 927).
ContainsNifty(symbol) == symbol \in {"Nifty 50", "Bank Nifty", "Nifty Midcap 100"}

\* datetime(y, m, d, h) of a day number.
Datetime(o, h) ==
    [year |-> FromOrdinal(o).year, month |-> FromOrdinal(o).month,
     day |-> FromOrdinal(o).day, hour |-> h]

\* Lines 940-944: the last Thursday of month m of year y.
LastThursday(y, m) ==
    LET temp_date == Ordinal(y, m, DaysInMonth(y, m))
        days_since_last_thursday == (Weekday(temp_date) - 3 + 7) % 7
    IN  temp_date - days_since_last_thursday

\* Lines 927-934: the Tuesday of an index symbol.
NextTuesday(t) ==
    LET days_until_tuesday == (1 - Weekday(DateOf(t)) + 7) % 7
    IN  IF days_until_tuesday = 0 /\ t.hour >= 15 THEN DateOf(t) + 7
        ELSE DateOf(t) + days_until_tuesday

\* Lines 946-947: has the last Thursday of the current month passed?
ThursdayPassed_DateOnly(t) == LastThursday(t.year, t.month) < DateOf(t)

ThursdayPassed(t) ==
    \/ LastThursday(t.year, t.month) < DateOf(t)
    \/ LastThursday(t.year, t.month) = DateOf(t) /\ t.hour >= 15

\* Lines 935-958: the Thursday of a stock symbol.
MonthlyThursday(t) ==
    IF ThursdayPassed(t)
    THEN IF t.month + 1 > 12 THEN LastThursday(t.year + 1, 1)
         ELSE LastThursday(t.year, t.month + 1)
    ELSE LastThursday(t.year, t.month)

\* The Tuesday rule without the roll at 15:00.
FallbackExpiry_NoRoll(symbol, t) ==
    IF ContainsNifty(symbol) THEN DateOf(t) + ((1 - Weekday(DateOf(t)) + 7) % 7)
    ELSE MonthlyThursday(t)

\* _get_fallback_expiry (lines 923-959): the day of the returned string.
FallbackExpiry(symbol, t) ==
    IF ContainsNifty(symbol) THEN NextTuesday(t) ELSE MonthlyThursday(t)

\* Lines 862-866: the list the category and the symbol select.
InstrumentListKey(symbol, instrument_category) ==
    CASE instrument_category = "options" ->
            IF ContainsNifty(symbol) THEN "OPTIDX" ELSE "OPTSTK"
      [] instrument_category = "futures" ->
            IF ContainsNifty(symbol) THEN "FUTIDX" ELSE "FUTSTK"
      [] OTHER -> "None"

\* The distinct expiries of the list, past ones too.
AvailableExpiries_All(instrument_list, t) ==
    {instrument_list[i].expiry : i \in 1 .. Len(instrument_list)}

\* Lines 875-878: the distinct expiries of the list that are not past.
AvailableExpiries(instrument_list, t) ==
    {instrument_list[i].expiry : i \in
        {j \in 1 .. Len(instrument_list) : instrument_list[j].expiry >= DateOf(t)}}

\* Lines 891-892.
IsWeekly(instrument_list, d) ==
    \E i \in 1 .. Len(instrument_list) :
        instrument_list[i].expiry = d /\ instrument_list[i].weekly
IsMonthly(instrument_list, d) ==
    \E i \in 1 .. Len(instrument_list) :
        instrument_list[i].expiry = d /\ instrument_list[i].monthly

\* Line 896: a weekly date taken for the monthly expiry of a future.
MonthlyFuturesDay(d, instrument_category) ==
    /\ FromOrdinal(d).day > 20
    /\ Weekday(d) = 3
    /\ instrument_category = "futures"

\* Lines 894-901 without the test of line 896.
Kept_ByFlagOnly(instrument_list, d, instrument_category, expiry_type) ==
    IF expiry_type = "weekly" /\ IsWeekly(instrument_list, d) THEN TRUE
    ELSE IF expiry_type = "monthly" /\ IsMonthly(instrument_list, d) THEN TRUE
    ELSE expiry_type \notin {"weekly", "monthly"}

\* Lines 894-901: is the date appended to filtered_expiries_str?
Kept(instrument_list, d, instrument_category, expiry_type) ==
    IF expiry_type = "weekly" /\ IsWeekly(instrument_list, d)
    THEN ~MonthlyFuturesDay(d, instrument_category)
    ELSE IF expiry_type = "monthly" /\ IsMonthly(instrument_list, d) THEN TRUE
    ELSE expiry_type \notin {"weekly", "monthly"}

\* The first element of a sorted list of dates.
Earliest(S) == CHOOSE d \in S : \A e \in S : d <= e

\* The outcome of a call: the day returned and the path that chose it.
Expiry(d, via) == [date |-> d, via |-> via]

\* Lines 908-918 applied to a monthly request too.
Broadens_Always(expiry_type) == TRUE

\* Line 908: `if expiry_type == "weekly"`.
Broadens(expiry_type) == expiry_type = "weekly"

\* Lines 875-921: the choice from a contract list.
ExpiryFromList(instrument_list, symbol, instrument_category, expiry_type, t) ==
    LET available == AvailableExpiries(instrument_list, t)
        filtered == {d \in available :
                        Kept(instrument_list, d, instrument_category, expiry_type)}
    IN  IF available = {} THEN Expiry(FallbackExpiry(symbol, t), "calendar")
        ELSE IF filtered # {} THEN Expiry(Earliest(filtered), "list")
        ELSE IF Broadens(expiry_type) THEN Expiry(Earliest(available), "broadened")
        ELSE Expiry(FallbackExpiry(symbol, t), "calendar")

\* The entry looked in when the symbol is searched as it was given.
ExpiryEntryOf_Raw(master, symbol) ==
    IF symbol \in DOMAIN master THEN symbol ELSE ""

\* Lines 846-857: the key of the entry of the symbol, "" when line 859
\* turns to the calendar rule.
ExpiryEntryOf(master, symbol) ==
    IF NormalizedSymbol(symbol) \in DOMAIN master THEN NormalizedSymbol(symbol)
    ELSE ""

\* _get_next_expiry (lines 839-921).
NextExpiry(master, symbol, instrument_category, expiry_type, t) ==
    IF ExpiryEntryOf(master, symbol) = ""
    THEN Expiry(FallbackExpiry(symbol, t), "calendar")
    ELSE IF InstrumentListKey(symbol, instrument_category) = "None"
    THEN Expiry(FallbackExpiry(symbol, t), "calendar")
    ELSE ExpiryFromList(
            master[NormalizedSymbol(symbol)][InstrumentListKey(symbol, instrument_category)],
            symbol, instrument_category, expiry_type, t)

\* ------------------------------------------------ indexes and inputs
\* Expiries of the contracts: a past Tuesday (3 November 2026), the
\* Tuesday 10 November, the last Thursday of November and the Tuesday
\* after it.
ListDays ==
    {Ordinal(2026, 11, 3), Ordinal(2026, 11, 10), Ordinal(2026, 11, 26),
     Ordinal(2026, 12, 1)}

\* weekly / monthly of a contract (preprocess_nse_data.py lines 133-134):
\* the row's 'weekly' is true, false or absent.
Flags ==
    {[weekly |-> TRUE, monthly |-> FALSE], [weekly |-> FALSE, monthly |-> TRUE],
     [weekly |-> FALSE, monthly |-> FALSE]}

\* Futures lists of n contracts, sorted by expiry.
DatedLists(n) ==
    {[i \in 1 .. n |->
        [expiry |-> s[i].expiry, weekly |-> s[i].flags.weekly,
         monthly |-> s[i].flags.monthly, instrument_key |-> FoKey(i)]] :
     s \in {t \in [1 .. n -> [expiry : ListDays, flags : Flags]] :
               \A i, j \in 1 .. n : i < j => t[i].expiry <= t[j].expiry}}

\* The option list with the contracts of a futures list (one strike, calls).
AsOptions(list) ==
    [i \in 1 .. Len(list) |->
        [expiry |-> list[i].expiry, weekly |-> list[i].weekly,
         monthly |-> list[i].monthly, instrument_key |-> list[i].instrument_key,
         strike |-> 100, option_type |-> "CE"]]

ExpiryIndexes ==
    {[k \in {key} |-> Entry(k, TRUE, AsOptions(list), list)] :
        key \in {"^NSEI", "RELIANCE.NS"},
        list \in UNION {DatedLists(n) : n \in 0 .. MaxContracts}}

\* datetime.now() of the calls on contract lists.
ListTodays ==
    {Datetime(o, h) : o \in {Ordinal(2026, 11, 9), Ordinal(2026, 11, 10),
                             Ordinal(2026, 11, 20)},
                      h \in {9, 15}}

\* datetime.now() of the calls that reach the calendar rule.
CalendarTodays ==
    {Datetime(o, h) : o \in Ordinal(2026, 11, 1) .. Ordinal(2026, 11, 1) + MaxDays - 1,
                      h \in {0, 14, 15, 23}}

ExpirySymbols == {"Nifty 50", "Bank Nifty", "^NSEI", "RELIANCE", "TCS"}
Categories == {"options", "futures"}
ExpiryTypes == {"weekly", "monthly", "nearest"}

\* ------------------------------------------------------------ actions
InitExpiryAt(indexes, todays) ==
    /\ AuthIdle /\ KeysIdle /\ DataIdle /\ AnalyticsIdle
    /\ INSTRUMENT_MASTER \in indexes
    /\ today \in todays
    /\ ex = NoExpiryCall

\* A process that loaded an index with contract lists.
InitExpiry == InitExpiryAt(ExpiryIndexes, ListTodays)

\* A process without index, or with entries that hold no contract.
InitCalendar ==
    InitExpiryAt({EmptyIndex, [k \in {"RELIANCE.NS"} |-> Entry(k, TRUE, <<>>, <<>>)]},
                 CalendarTodays)

\* A caller calls _get_next_expiry.
GetNextExpiry_Call ==
    \E symbol \in ExpirySymbols, instrument_category \in Categories,
       expiry_type \in ExpiryTypes :
        /\ ex.pc = "idle"
        /\ ex' = [pc |-> "returned", symbol |-> symbol,
                  instrument_category |-> instrument_category,
                  expiry_type |-> expiry_type,
                  result |-> NextExpiry(INSTRUMENT_MASTER, symbol,
                                instrument_category, expiry_type, today)]
        /\ UNCHANGED <<authVars, INSTRUMENT_MASTER, keyVars, today, dataVars, an>>

NextExpiryStep == GetNextExpiry_Call

SpecExpiry == InitExpiry /\ [][NextExpiryStep]_vars

SpecCalendar == InitCalendar /\ [][NextExpiryStep]_vars

\* ------------------------------------------------------------ C14-C17
\* The contract list a call reads, when the index has the symbol's entry.
HasList(c) ==
    /\ NormalizedSymbol(c.symbol) \in DOMAIN INSTRUMENT_MASTER
    /\ InstrumentListKey(c.symbol, c.instrument_category) # "None"
ListOf(c) ==
    INSTRUMENT_MASTER[NormalizedSymbol(c.symbol)]
                     [InstrumentListKey(c.symbol, c.instrument_category)]

\* The upcoming expiries of a list, and those flagged as the call asks.
Upcoming(list) ==
    {d \in ListDays : d >= DateOf(today) /\ \E i \in 1 .. Len(list) : list[i].expiry = d}
Flagged(list, expiry_type) ==
    {d \in Upcoming(list) :
        \E i \in 1 .. Len(list) :
            /\ list[i].expiry = d
            /\ IF expiry_type = "weekly" THEN list[i].weekly ELSE list[i].monthly}

\* C14 as stated: a weekly or monthly request on a list with an upcoming
\* date of the requested flag returns the earliest such date, for options
\* and for futures.
C14_EarliestFlagged ==
    (/\ ex.pc = "returned"
     /\ ex.expiry_type \in {"weekly", "monthly"}
     /\ HasList(ex)) =>
        \A d \in Flagged(ListOf(ex), ex.expiry_type) :
            (\A e \in Flagged(ListOf(ex), ex.expiry_type) : d <= e) =>
                ex.result.date = d

\* The flagged dates a weekly request for futures passes over: Thursdays
\* after the 20th of the month.
PassedOver(c) ==
    {d \in Flagged(ListOf(c), c.expiry_type) :
        /\ c.expiry_type = "weekly"
        /\ c.instrument_category = "futures"
        /\ FromOrdinal(d).day > 20
        /\ Weekday(d) = 3}

\* C14: a weekly or monthly request returns the earliest upcoming date of
\* the requested flag that is not, for a weekly request for futures, a
\* Thursday after the 20th of the month, whenever the list has such a date.
C14_EarliestFlaggedNotPassedOver ==
    (/\ ex.pc = "returned"
     /\ ex.expiry_type \in {"weekly", "monthly"}
     /\ HasList(ex)) =>
        \A d \in Flagged(ListOf(ex), ex.expiry_type) \ PassedOver(ex) :
            (\A e \in Flagged(ListOf(ex), ex.expiry_type) \ PassedOver(ex) : d <= e) =>
                ex.result = Expiry(d, "list")

\* A weekly request for futures passed over the Thursday 26 November and
\* returned a later weekly date.
C14_Witness ==
    /\ ex.pc = "returned"
    /\ ex.expiry_type = "weekly"
    /\ ex.instrument_category = "futures"
    /\ HasList(ex)
    /\ PassedOver(ex) # {}
    /\ \E d \in Flagged(ListOf(ex), "weekly") \ PassedOver(ex) :
          /\ ex.result.date = d
          /\ \E e \in PassedOver(ex) : e < d

\* C15: a weekly request on a list whose upcoming dates carry no weekly
\* flag returns the earliest upcoming date of any type; a weekly request
\* reaches the calendar rule only when the list has no upcoming date; a
\* monthly request without monthly-flagged upcoming date goes to the
\* calendar rule, without broadening.
C15_WeeklyBroadens ==
    (ex.pc = "returned" /\ HasList(ex)) =>
        /\ (/\ ex.expiry_type = "weekly"
            /\ Upcoming(ListOf(ex)) # {}
            /\ Flagged(ListOf(ex), "weekly") = {}) =>
              /\ ex.result.via = "broadened"
              /\ ex.result.date \in Upcoming(ListOf(ex))
              /\ \A e \in Upcoming(ListOf(ex)) : ex.result.date <= e
        /\ (ex.expiry_type = "weekly" /\ ex.result.via = "calendar") =>
              Upcoming(ListOf(ex)) = {}
        /\ (ex.expiry_type = "monthly" /\ Flagged(ListOf(ex), "monthly") = {}) =>
              ex.result.via = "calendar"

\* A weekly request found only a monthly date and returned it.
C15_Witness ==
    /\ ex.pc = "returned"
    /\ HasList(ex)
    /\ ex.expiry_type = "weekly"
    /\ Flagged(ListOf(ex), "weekly") = {}
    /\ Flagged(ListOf(ex), "monthly") # {}
    /\ ex.result.via = "broadened"
    /\ ex.result.date \in Flagged(ListOf(ex), "monthly")

\* The symbols that name an index, and the tickers of stocks.
NamedIndexes == {"Nifty 50", "Bank Nifty"}
StockTickers == {"RELIANCE", "TCS"}

\* A call for a symbol the index has no entry for.
Absent(c) == NormalizedSymbol(c.symbol) \notin DOMAIN INSTRUMENT_MASTER

IsLastThursday(d, y, m) ==
    /\ Weekday(d) = 3
    /\ Ordinal(y, m, 1) <= d
    /\ d <= Ordinal(y, m, DaysInMonth(y, m))
    /\ d + 7 > Ordinal(y, m, DaysInMonth(y, m))

\* C17: for a stock symbol absent from the Instrument Index the returned
\* expiry is the last Thursday of the current month, unless that day is
\* before today or is today at or past 15:00: then it is the last Thursday
\* of the next month, January of the next year after December.
C17_LastThursday ==
    (ex.pc = "returned" /\ ex.symbol \in StockTickers /\ Absent(ex)) =>
        LET t == DateOf(today)
            d == ex.result.date
            rolled == \E e \in t - 31 .. t :
                         /\ IsLastThursday(e, today.year, today.month)
                         /\ (e < t \/ today.hour >= 15)
        IN  IF rolled
            THEN IF today.month = 12 THEN IsLastThursday(d, today.year + 1, 1)
                 ELSE IsLastThursday(d, today.year, today.month + 1)
            ELSE IsLastThursday(d, today.year, today.month)

\* Asked on the last Thursday of December at 15:00, the call returned the
\* last Thursday of January of the next year.
C17_Witness ==
    /\ ex.pc = "returned"
    /\ ex.symbol \in StockTickers
    /\ Absent(ex)
    /\ today.month = 12
    /\ today.hour = 15
    /\ IsLastThursday(DateOf(today), today.year, 12)
    /\ IsLastThursday(ex.result.date, today.year + 1, 1)

\* ============================================= the Market Data Client
\* get_spot_price (lines 232-297) and get_option_chain (lines 433-552) of
\* one caller.  Each _make_api_call they make is run by the request loop of
\* the first part of this module (get_headers, the request, the single
\* retry); the data of a success payload is chosen when the call returns.

\* ------------------------------------------------------------- bounds
\* Operations of the Market Data Client the caller makes.
MaxCalls == 2

\* The caller of the Market Data Client.
DataCaller == "c1"

\* ------------------------------------------------------------- values
\* key.replace("|", ":") and key.replace(":", "|") (lines 264, 481).
Colon(k) == IF k.sep = "|" THEN [k EXCEPT !.sep = ":"] ELSE k
Pipe(k) == IF k.sep = ":" THEN [k EXCEPT !.sep = "|"] ELSE k

\* dict update: key_map[k] = v.
Put(km, k, v) == [x \in DOMAIN km \cup {k} |-> IF x = k THEN v ELSE km[x]]

\* `if instrument_key in self.key_map: instrument_key = self.key_map[...]`.
Mapped(km, k) == IF k \in DOMAIN km THEN km[k] ELSE k

\* Lines 242-250: the key built from the symbol when there is none
\* (`"MIDCAP" in symbol.upper()` over the symbols that are spelt here).
SpotFallbackKey(symbol) ==
    CASE symbol \in {"Nifty 50", "^NSEI"} -> Key("NSE_INDEX", "|", "Nifty 50")
      [] symbol \in {"Bank Nifty", "^NSEBANK"} -> Key("NSE_INDEX", "|", "Nifty Bank")
      [] symbol \in {"Nifty Midcap 100", "NIFTY_MIDCAP_100.NS"} ->
            Key("NSE_INDEX", "|", "Nifty Midcap 100")
      [] ~StartsWithCaret(symbol) -> Key("NSE_EQ", "|", symbol)
      [] OTHER -> NoKey

\* Lines 235-250: params["instrument_key"] of get_spot_price, or None.
SpotRequestKey(master, km, symbol) ==
    LET k0 == GetInstrumentKey(master, symbol, "SPOT", NoneDate, NoneStrike,
                               NoneType).key
        k1 == Mapped(km, k0)
    IN  IF k1 # NoKey THEN k1 ELSE SpotFallbackKey(symbol)

\* Lines 449-463: the key of the first option-chain request.
ChainRequestKey(master, km, symbol) ==
    CASE symbol = "Nifty 50" -> Key("NSE_INDEX", "|", "Nifty 50")
      [] symbol = "Bank Nifty" -> Key("NSE_INDEX", "|", "Nifty Bank")
      [] OTHER ->
            LET k0 == GetInstrumentKey(master, symbol, "SPOT", NoneDate,
                                       NoneStrike, NoneType).key
                k1 == IF k0 # NoKey THEN Mapped(km, k0) ELSE k0
            IN  IF k1 # NoKey THEN k1 ELSE Key("NSE_EQ", "|", symbol)

\* data["data"] of a quotes payload: (key, has last_price) in dict order.
Keys(quote) == {quote[i].key : i \in 1 .. Len(quote)}
Priced(quote, k) == \E i \in 1 .. Len(quote) : quote[i].key = k /\ quote[i].priced

\* Lines 264-270: the first of the key and its variants that is in the data.
FoundKey(k, quote) ==
    IF k \in Keys(quote) THEN k
    ELSE IF Colon(k) \in Keys(quote) THEN Colon(k)
    ELSE IF Pipe(k) \in Keys(quote) THEN Pipe(k)
    ELSE NoKey

\* Lines 282-288: the first returned key that has a last_price.
ScanKey(quote) ==
    IF \E i \in 1 .. Len(quote) : quote[i].priced
    THEN quote[CHOOSE i \in 1 .. Len(quote) :
                  quote[i].priced /\ \A j \in 1 .. i - 1 : ~quote[j].priced].key
    ELSE NoKey

\* The key recorded by lines 274-275 and 285, or None when nothing is
\* recorded.
RecordedKey(k, quote) ==
    IF FoundKey(k, quote) # NoKey
    THEN IF FoundKey(k, quote) # k THEN FoundKey(k, quote) ELSE NoKey
    ELSE ScanKey(quote)

\* Lines 272-288: key_map after a success payload.
KeyMapAfterQuote(km, k, quote) ==
    IF RecordedKey(k, quote) # NoKey THEN Put(km, k, RecordedKey(k, quote)) ELSE km

\* The key whose last_price is returned, None when get_spot_price returns
\* None (a found key without last_price raises KeyError, caught on line 294).
PriceKey(k, quote) ==
    IF FoundKey(k, quote) # NoKey
    THEN IF Priced(quote, FoundKey(k, quote)) THEN FoundKey(k, quote) ELSE NoKey
    ELSE ScanKey(quote)

\* The key under which the provider files a symbol's quote.
ProviderKey(symbol) ==
    IF symbol = "Nifty 50" THEN Key("NSE_INDEX", ":", "Nifty 50")
    ELSE Key("NSE_EQ", ":", symbol)

\* data["data"] of the success payloads of a quotes request for key k.
QuoteShapes(k, symbol) ==
    {<< >>,
     <<[key |-> k, priced |-> TRUE]>>,
     <<[key |-> Colon(k), priced |-> TRUE]>>,
     <<[key |-> ProviderKey(symbol), priced |-> TRUE]>>,
     <<[key |-> ProviderKey(symbol), priced |-> FALSE]>>}

\* data["data"] of the success payloads of an option-chain request.
ChainShapes == {<< >>, <<[strike_price |-> 100]>>}

\* The payload _make_api_call returned, as the operation sees it.
Payload(data, round, content) ==
    [status |-> data.status, errorCode |-> data.errorCode, n |-> data.n,
     round |-> round, data |-> content]

DataReturned(price_key, rows) ==
    [kind |-> "return", exc |-> "", payload |-> NoPayload,
     price_key |-> price_key, rows |-> rows]
DataRaised(exc, payload) ==
    [kind |-> "raise", exc |-> exc, payload |-> payload,
     price_key |-> NoKey, rows |-> "none"]

DataFinish(m, res) == [m EXCEPT !.pc = "done", !.result = res]

\* ---------------------------------------------------- get_futures_data
\* An expiry_date that is not a '%Y-%m-%d' string.
BadDate == 0 - 2

\* exp_dt.strftime("%b").upper() (line 578).
MonthAbbr(month) ==
    <<"JAN", "FEB", "MAR", "APR", "MAY", "JUN", "JUL", "AUG", "SEP", "OCT",
      "NOV", "DEC">>[month]

\* Lines 580-582: fut_sym.
FutSym(symbol) ==
    CASE symbol = "Nifty 50" -> "NIFTY"
      [] symbol = "Bank Nifty" -> "BANKNIFTY"
      [] OTHER -> symbol

\* f"{fut_sym}{yy}{mon}FUT" (lines 584-585) over the names spelt here.
FuturesName(fut_sym, yy, mon) ==
    CASE fut_sym = "NIFTY" /\ yy = 26 /\ mon = "NOV" -> "NIFTY26NOVFUT"
      [] fut_sym = "NIFTY" /\ yy = 26 /\ mon = "DEC" -> "NIFTY26DECFUT"
      [] fut_sym = "RELIANCE" /\ yy = 26 /\ mon = "NOV" -> "RELIANCE26NOVFUT"
      [] fut_sym = "RELIANCE" /\ yy = 26 /\ mon = "DEC" -> "RELIANCE26DECFUT"

\* Line 566: instrument_type.
FuturesKind(symbol) == IF ContainsNifty(symbol) THEN "FUTIDX" ELSE "FUTSTK"

\* Lines 567-572: the id the index gives and its ':' variant.
ResolvedKeys(master, symbol, expiry_date) ==
    LET instrument_key == GetInstrumentKey(master, symbol, FuturesKind(symbol),
                                           expiry_date, NoneStrike, NoneType).key
    IN  IF instrument_key # NoKey THEN <<instrument_key, Colon(instrument_key)>>
        ELSE << >>

\* Lines 575-587: the two constructed keys, none when strptime raises.
ConstructedKeys(symbol, expiry_date) ==
    IF expiry_date = BadDate THEN << >>
    ELSE LET exp_dt == FromOrdinal(expiry_date)
             name == FuturesName(FutSym(symbol), exp_dt.year % 100,
                                 MonthAbbr(exp_dt.month))
         IN  <<Key("NSE_FO", "|", name), Key("NSE_FO", ":", name)>>

\* keys_to_try with the constructed keys put first.
KeysToTry_ConstructedFirst(master, symbol, expiry_date) ==
    ConstructedKeys(symbol, expiry_date) \o ResolvedKeys(master, symbol, expiry_date)

\* Lines 569-587: keys_to_try.
KeysToTry(master, symbol, expiry_date) ==
    ResolvedKeys(master, symbol, expiry_date) \o ConstructedKeys(symbol, expiry_date)

\* Lines 602-612: found_key.
FuturesFoundKey(key, quote) ==
    IF key \in Keys(quote) THEN key
    ELSE IF Colon(key) \in Keys(quote) THEN Colon(key)
    ELSE IF quote # << >> THEN quote[1].key
    ELSE NoKey

\* What the loop of lines 592-651 did with a candidate: the key requested,
\* whether the response was a success, whether it gave a futures price,
\* and what get_spot_price gave ("unasked" when it was not called).
Tried(key, success, futures, spot) ==
    [key |-> key, success |-> success, futures |-> futures, spot |-> spot]

\* Lines 592, 653-656: the next key of keys_to_try is requested, or the
\* unavailable result is returned.
NextCandidate(m) ==
    IF m.round < Len(m.keys_to_try)
    THEN [m EXCEPT !.round = @ + 1,
                   !.chain_key = m.keys_to_try[m.round + 1],
                   !.key = m.keys_to_try[m.round + 1],
                   !.pc = "futures_call"]
    ELSE DataFinish(m, DataReturned(NoKey, "none"))

\* Lines 614-645: get_spot_price has returned into get_futures_data; the
\* futures quote of the candidate is the data of m.
FuturesSpotEnded(m, price_key) ==
    LET futures == Priced(m.data.data, FuturesFoundKey(m.chain_key, m.data.data))
        tried == Tried(m.chain_key, TRUE, futures,
                       IF price_key # NoKey THEN "priced" ELSE "none")
        m1 == [m EXCEPT !.seen = Append(@, tried)]
    IN  IF futures /\ price_key # NoKey
        THEN DataFinish(m1, DataReturned(FuturesFoundKey(m.chain_key, m.data.data),
                                         "none"))
        ELSE NextCandidate(m1)

\* get_spot_price returns (lines 254, 279, 288, 297): to its caller, into
\* get_futures_data (line 620) or into get_option_chain (lines 494-496).
SpotEnded(m, price_key) ==
    IF m.op = "get_spot_price" THEN DataFinish(m, DataReturned(price_key, "none"))
    ELSE IF m.op = "get_futures_data" THEN FuturesSpotEnded(m, price_key)
    ELSE IF price_key = NoKey
    THEN DataFinish(m, DataRaised("RuntimeError: no spot price", NoPayload))
    ELSE DataFinish(m, DataReturned(price_key,
                                    IF m.data.data = << >> THEN "empty" ELSE "filtered"))

\* get_spot_price up to its request (lines 235-260).
SpotBegun(m, master, km) ==
    IF SpotRequestKey(master, km, m.symbol) = NoKey THEN SpotEnded(m, NoKey)
    ELSE [m EXCEPT !.key = SpotRequestKey(master, km, m.symbol), !.pc = "spot_call"]

\* Line 479: `"NSE_EQ" in chain_instrument_key and "|" in chain_instrument_key`.
IsEquityPipeKey(k) == k.seg = "NSE_EQ" /\ k.sep = "|"

NamedChains == {"Nifty 50", "Bank Nifty"}

\* The next request of get_option_chain after a non-success payload.
ChainRetry(m, round, k) == [m EXCEPT !.round = round, !.key = k, !.pc = "chain_call"]

\* Lines 477-496 with the test of line 491 left out.
AfterChainResponse_NoRaise(m, master, km) ==
    IF m.data.status = "success" THEN SpotBegun(m, master, km)
    ELSE IF m.round = 1 /\ IsEquityPipeKey(m.chain_key)
    THEN ChainRetry(m, 2, Colon(m.chain_key))
    ELSE IF m.round < 3 /\ m.symbol \notin NamedChains
    THEN ChainRetry(m, 3, Key("NSE_EQ", "|", m.symbol))
    ELSE SpotBegun(m, master, km)

\* Lines 477-492 with the fallback round for the named indexes too.
AfterChainResponse_NamedFallback(m, master, km) ==
    IF m.data.status = "success" THEN SpotBegun(m, master, km)
    ELSE IF m.round = 1 /\ IsEquityPipeKey(m.chain_key)
    THEN ChainRetry(m, 2, Colon(m.chain_key))
    ELSE IF m.round < 3
    THEN ChainRetry(m, 3, Key("NSE_EQ", "|", m.symbol))
    ELSE DataFinish(m, DataRaised("RuntimeError: Option chain failed", m.data))

\* Lines 477-496: what get_option_chain does with the payload of a round.
AfterChainResponse(m, master, km) ==
    IF m.data.status = "success" THEN SpotBegun(m, master, km)
    ELSE IF m.round = 1 /\ IsEquityPipeKey(m.chain_key)
    THEN ChainRetry(m, 2, Colon(m.chain_key))
    ELSE IF m.round < 3 /\ m.symbol \notin NamedChains
    THEN ChainRetry(m, 3, Key("NSE_EQ", "|", m.symbol))
    ELSE DataFinish(m, DataRaised("RuntimeError: Option chain failed", m.data))

\* ------------------------------------------- get_holdings, get_positions
\* Lines 410 and 423: the url of the request.
PortfolioUrl(op) ==
    IF op = "get_holdings" THEN "portfolio/long-term-holdings"
    ELSE "portfolio/short-term-positions"

\* The wrapper with its `except Exception` left out: the exception of
\* _make_api_call leaves the wrapper.
PortfolioResult_Reraise(r) ==
    IF r.kind = "raise" THEN DataRaised(r.exc, NoPayload)
    ELSE DataReturned(NoKey, IF r.data.status = "success" THEN "data" ELSE "empty")

\* Lines 409-418 and 422-431: data["data"] of a success payload, [] for
\* any other payload and for an exception of _make_api_call.
PortfolioResult(r) ==
    DataReturned(NoKey, IF r.kind = "return" /\ r.data.status = "success"
                        THEN "data" ELSE "empty")

\* ------------------------------------------------ indexes and inputs
DataSymbols == {"Nifty 50", "RELIANCE"}

\* No index file, or an index with the SPOT descriptors of both symbols.
DataIndexes ==
    {EmptyIndex,
     [k \in {"^NSEI", "RELIANCE.NS"} |-> Entry(k, TRUE, << >>, << >>)]}

\* ------------------------------------------------------------ actions
InitData ==
    /\ now = StartClock
    /\ token_file \in InitFiles
    /\ issued = 1
    /\ port = "free"
    /\ st = [c \in Callers |-> Idle]
    /\ INSTRUMENT_MASTER \in DataIndexes
    /\ KeysIdle /\ ExpiryIdle /\ DataIdle /\ AnalyticsIdle

\* The caller calls get_spot_price (lines 232-254).
GetSpotPrice_Begin ==
    /\ md.pc = "idle"
    /\ hist.calls < MaxCalls
    /\ \E symbol \in DataSymbols :
         md' = SpotBegun([NoDataCall EXCEPT !.op = "get_spot_price",
                                           !.symbol = symbol],
                         INSTRUMENT_MASTER, key_map)
    /\ UNCHANGED <<authVars, INSTRUMENT_MASTER, keyVars, expiryVars, key_map,
                   hist, an>>

\* The caller calls get_option_chain without expiry (lines 443-468).
GetOptionChain_Begin ==
    /\ md.pc = "idle"
    /\ hist.calls < MaxCalls
    /\ \E symbol \in DataSymbols :
         md' = [NoDataCall EXCEPT
                  !.op = "get_option_chain",
                  !.symbol = symbol,
                  !.expiry_date = NextExpiry(INSTRUMENT_MASTER, symbol, "options",
                                             "weekly", today).date,
                  !.chain_key = ChainRequestKey(INSTRUMENT_MASTER, key_map, symbol),
                  !.key = ChainRequestKey(INSTRUMENT_MASTER, key_map, symbol),
                  !.round = 1,
                  !.pc = "chain_call"]
    /\ UNCHANGED <<authVars, INSTRUMENT_MASTER, keyVars, expiryVars, key_map,
                   hist, an>>

\* self._make_api_call(url, params) is entered (lines 260, 353, 472, 483,
\* 489, 597, 411, 424).
MakeApiCall_Enter ==
    /\ md.pc \in {"spot_call", "chain_call", "quote_call", "futures_call",
                  "portfolio_call"}
    /\ st[DataCaller].pc = "idle"
    /\ st' = [st EXCEPT ![DataCaller] =
                [Idle EXCEPT !.op = "_make_api_call",
                             !.req = CASE md.pc = "chain_call" -> "option/chain"
                                       [] md.pc = "portfolio_call" ->
                                             PortfolioUrl(md.op)
                                       [] OTHER -> "market-quote/quotes",
                             !.attempt = 1,
                             !.pc = "gat_exists"]]
    /\ md' = [md EXCEPT !.pc = CASE md.pc = "spot_call" -> "spot_wait"
                                 [] md.pc = "chain_call" -> "chain_wait"
                                 [] md.pc = "futures_call" -> "futures_wait"
                                 [] md.pc = "portfolio_call" -> "portfolio_wait"
                                 [] OTHER -> "quote_wait"]
    /\ UNCHANGED <<now, token_file, issued, port, INSTRUMENT_MASTER, keyVars,
                   expiryVars, key_map, hist, an>>

\* _make_api_call returns or raises into get_spot_price (lines 260-297).
GetSpotPrice_Response ==
    /\ md.pc = "spot_wait"
    /\ st[DataCaller].pc = "done"
    /\ st' = [st EXCEPT ![DataCaller] = Idle]
    /\ LET r == st[DataCaller].result
           ok == r.kind = "return" /\ r.data.status = "success"
       IN  \E quote \in IF ok THEN QuoteShapes(md.key, md.symbol) ELSE {<< >>} :
             /\ md' = SpotEnded([md EXCEPT !.quote = quote],
                                IF ok THEN PriceKey(md.key, quote) ELSE NoKey)
             /\ key_map' = IF ok THEN KeyMapAfterQuote(key_map, md.key, quote)
                           ELSE key_map
             /\ hist' = IF ok /\ RecordedKey(md.key, quote) # NoKey
                        THEN [hist EXCEPT !.discovered =
                                 @ \cup {[symbol |-> md.symbol,
                                          key |-> RecordedKey(md.key, quote)]}]
                        ELSE hist
    /\ UNCHANGED <<now, token_file, issued, port, INSTRUMENT_MASTER, keyVars,
                   expiryVars, an>>

\* _make_api_call returns or raises into get_option_chain (lines 472-492).
GetOptionChain_Response ==
    /\ md.pc = "chain_wait"
    /\ st[DataCaller].pc = "done"
    /\ st' = [st EXCEPT ![DataCaller] = Idle]
    /\ LET r == st[DataCaller].result
       IN  IF r.kind = "raise"
           THEN md' = DataFinish(md, DataRaised(r.exc, NoPayload))
           ELSE \E content \in IF r.data.status = "success" THEN ChainShapes
                                ELSE {<< >>} :
                  LET payload == Payload(r.data, md.round, content)
                  IN  md' = AfterChainResponse(
                              [md EXCEPT !.data = payload,
                                         !.seen = Append(@, payload)],
                              INSTRUMENT_MASTER, key_map)
    /\ UNCHANGED <<now, token_file, issued, port, INSTRUMENT_MASTER, keyVars,
                   expiryVars, key_map, hist, an>>

\* ---------------------------------------------------- get_spot_quote
\* `"MIDCAP" in symbol.upper()` and `"SMALLCAP" in symbol.upper()` over the
\* symbols that are spelt here.
HasMidcap(symbol) == symbol \in {"Nifty Midcap 100", "NIFTY_MIDCAP_100.NS"}
HasSmallcap(symbol) == symbol \in {"Nifty Smallcap 100"}

\* Lines 309-320: the key built from the symbol when there is none.
QuoteFallbackKey(symbol) ==
    CASE symbol \in {"Nifty 50", "^NSEI"} -> Key("NSE_INDEX", "|", "Nifty 50")
      [] symbol \in {"Bank Nifty", "^NSEBANK"} -> Key("NSE_INDEX", "|", "Nifty Bank")
      [] HasMidcap(symbol) -> Key("NSE_INDEX", "|", "Nifty Midcap 100")
      [] HasSmallcap(symbol) -> Key("NSE_INDEX", "|", "Nifty Smallcap 100")
      [] ~StartsWithCaret(symbol) -> Key("NSE_EQ", "|", symbol)
      [] OTHER -> NoKey

\* Lines 302-320: instrument_key of get_spot_quote, or None.
QuoteRequestKey(master, km, symbol) ==
    LET k0 == GetInstrumentKey(master, symbol, "SPOT", NoneDate, NoneStrike,
                               NoneType).key
        k1 == Mapped(km, k0)
    IN  IF k1 # NoKey THEN k1 ELSE QuoteFallbackKey(symbol)

\* Lines 331-346: candidate_keys.
CandidateKeys(instrument_key, symbol) ==
    <<instrument_key>> \o
    (IF HasSmallcap(symbol)
     THEN <<Key("NSE_INDEX", "|", "Nifty Smallcap 100"),
            Key("NSE_INDEX", "|", "NIFTY SMALLCAP 100"),
            Key("NSE_INDEX", "|", "Nifty Smallcap 250"),
            Key("NSE_INDEX", "|", "NIFTY SMLCAP 100")>>
     ELSE IF HasMidcap(symbol)
     THEN <<Key("NSE_INDEX", "|", "Nifty Midcap 100"),
            Key("NSE_INDEX", "|", "NIFTY MIDCAP 100"),
            Key("NSE_INDEX", "|", "Nifty Midcap 150")>>
     ELSE << >>)

\* Lines 357-371: the key, a variant of it, or else the first key of the
\* data; None when the data is empty.
QuoteFoundKey(key, quote) ==
    IF FoundKey(key, quote) # NoKey THEN FoundKey(key, quote)
    ELSE IF quote # << >> THEN quote[1].key
    ELSE NoKey

\* Lines 373-388: key_map after the success payload of candidate `key`.
KeyMapAfterSpotQuote(km, instrument_key, key, quote) ==
    IF QuoteFoundKey(key, quote) # NoKey /\ key # instrument_key
    THEN Put(km, instrument_key, key)
    ELSE km

\* data["data"] of the success payloads of a quotes request of
\* get_spot_quote for key k.
SpotQuoteShapes(k) ==
    {<< >>, <<[key |-> k, priced |-> TRUE]>>, <<[key |-> Colon(k), priced |-> TRUE]>>}

\* Lines 348-405: what get_spot_quote does after the request of a candidate:
\* it returns the quote found, tries the next candidate or returns {}.
AfterQuoteResponse(m, ok, quote) ==
    IF ok /\ QuoteFoundKey(m.key, quote) # NoKey
    THEN DataFinish([m EXCEPT !.quote = quote],
                    DataReturned(QuoteFoundKey(m.key, quote), "none"))
    ELSE IF m.round < Len(CandidateKeys(m.chain_key, m.symbol))
    THEN [m EXCEPT !.round = @ + 1,
                   !.key = CandidateKeys(m.chain_key, m.symbol)[m.round + 1],
                   !.quote = quote,
                   !.pc = "quote_call"]
    ELSE DataFinish([m EXCEPT !.quote = quote], DataReturned(NoKey, "none"))

QuoteSymbols == {"RELIANCE", "Nifty Midcap 100"}

\* The caller calls get_spot_quote (lines 299-346); chain_key holds
\* instrument_key, key the candidate of the round.
GetSpotQuote_Begin ==
    /\ md.pc = "idle"
    /\ hist.calls < MaxCalls
    /\ \E symbol \in QuoteSymbols :
         LET instrument_key == QuoteRequestKey(INSTRUMENT_MASTER, key_map, symbol)
             m == [NoDataCall EXCEPT !.op = "get_spot_quote", !.symbol = symbol]
         IN  md' = IF instrument_key = NoKey
                   THEN DataFinish(m, DataReturned(NoKey, "none"))
                   ELSE [m EXCEPT !.chain_key = instrument_key,
                                  !.key = instrument_key,
                                  !.round = 1,
                                  !.pc = "quote_call"]
    /\ UNCHANGED <<authVars, INSTRUMENT_MASTER, keyVars, expiryVars, key_map,
                   hist, an>>

\* _make_api_call returns or raises into get_spot_quote (lines 353-402).
GetSpotQuote_Response ==
    /\ md.pc = "quote_wait"
    /\ st[DataCaller].pc = "done"
    /\ st' = [st EXCEPT ![DataCaller] = Idle]
    /\ LET r == st[DataCaller].result
           ok == r.kind = "return" /\ r.data.status = "success"
       IN  \E quote \in IF ok THEN SpotQuoteShapes(md.key) ELSE {<< >>} :
             /\ md' = AfterQuoteResponse(md, ok, quote)
             /\ key_map' = IF ok THEN KeyMapAfterSpotQuote(key_map, md.chain_key,
                                                           md.key, quote)
                           ELSE key_map
    /\ UNCHANGED <<now, token_file, issued, port, INSTRUMENT_MASTER, keyVars,
                   expiryVars, hist, an>>

\* The operation returns (or raises) to the caller.
DataCall_End ==
    /\ md.pc = "done"
    /\ md' = NoDataCall
    /\ hist' = [hist EXCEPT !.calls = @ + 1]
    /\ UNCHANGED <<authVars, INSTRUMENT_MASTER, keyVars, expiryVars, key_map, an>>

\* The steps of _make_api_call (and of get_headers under it).
ApiStep(c) ==
    \/ GetAccessToken_Exists(c)
    \/ GetAccessToken_Read(c)
    \/ GetAccessToken_Remove(c)
    \/ GetAuthCode_Bind(c)
    \/ GetAuthCode_HandleRequest(c)
    \/ ExchangeCode_Post(c)
    \/ ExchangeCode_Write(c)
    \/ MakeApiCall_Request(c)
    \/ InvalidateToken(c)

NextData ==
    \/ GetSpotPrice_Begin
    \/ GetOptionChain_Begin
    \/ MakeApiCall_Enter
    \/ GetSpotPrice_Response
    \/ GetOptionChain_Response
    \/ GetSpotQuote_Begin
    \/ GetSpotQuote_Response
    \/ DataCall_End
    \/ ApiStep(DataCaller)

SpecData == InitData /\ [][NextData]_vars

\* ------------------------------------------------------------ C18-C19
\* The keys get_spot_price has recorded in calls for a symbol.
DiscoveredFor(symbol) ==
    {d.key : d \in {x \in hist.discovered : x.symbol = symbol}}

\* The keys of a quotes payload that carry a last_price.
PricedKeys(quote) == {k \in Keys(quote) : Priced(quote, k)}

\* C18: when the success payload of get_spot_price lacks the requested
\* key, the price is taken from a separator variant of it or else from the
\* key that is present; the key is recorded in key_map for the instrument;
\* and every later get_spot_price for the symbol requests with the
\* recorded key instead of discovering it again.
C18_RecordedMappingUsed ==
    /\ (/\ md.pc = "done"
        /\ md.op = "get_spot_price"
        /\ PricedKeys(md.quote) # {}
        /\ md.key \notin Keys(md.quote)) =>
          /\ md.result.price_key \in PricedKeys(md.quote)
          /\ ({Colon(md.key), Pipe(md.key)} \cap Keys(md.quote) # {} =>
                md.result.price_key \in {Colon(md.key), Pipe(md.key)})
          /\ md.key \in DOMAIN key_map
          /\ key_map[md.key] = md.result.price_key
    /\ (md.pc = "spot_call" /\ DiscoveredFor(md.symbol) # {}) =>
          md.key \in DiscoveredFor(md.symbol)

\* The keys get_option_chain may request with, in order.
Candidates(m) ==
    <<m.chain_key>>
      \o (IF IsEquityPipeKey(m.chain_key) THEN <<Colon(m.chain_key)>> ELSE << >>)
      \o (IF m.symbol \notin NamedChains THEN <<Key("NSE_EQ", "|", m.symbol)>>
          ELSE << >>)

\* Every candidate key was requested and answered with a non-success status.
AllRejected(m) ==
    /\ Len(m.seen) = Len(Candidates(m))
    /\ \A i \in 1 .. Len(m.seen) : m.seen[i].status # "success"

\* C19: when the provider answers the option-chain request with a
\* non-success status for every candidate key, get_option_chain raises an
\* error that carries the payload of the last response and returns no
\* rows; rows are only ever built from a success payload.
C19_FailsWithLastPayload ==
    md.op = "get_option_chain" =>
        /\ (md.pc = "done" /\ AllRejected(md)) =>
              /\ md.result.kind = "raise"
              /\ md.result.payload = md.seen[Len(md.seen)]
              /\ md.result.rows = "none"
        /\ (md.pc \in {"spot_call", "spot_wait"} \/ md.result.kind = "return") =>
              /\ md.seen # << >>
              /\ md.seen[Len(md.seen)].status = "success"
              /\ md.data = md.seen[Len(md.seen)]

\* The three keys of a stock were rejected and the call raised with the
\* third payload.
C19_Witness ==
    /\ md.pc = "done"
    /\ md.op = "get_option_chain"
    /\ Len(md.seen) = 3
    /\ AllRejected(md)
    /\ md.result.kind = "raise"
    /\ md.result.payload.round = 3

\* =================================================== the Analytics Engine
\* calculate_pcr (lines 770-797) over an option chain: the rows of the
\* DataFrame with their CE_OI, PE_OI, CE_Volume and PE_Volume columns.

\* ------------------------------------------------------------- bounds
\* Rows of an option chain.
MaxRows == 2

\* ------------------------------------------------------------- values
\* option_chain[column].sum() (lines 772-775).
RECURSIVE Sum(_, _)
Sum(option_chain, column) ==
    IF option_chain = << >> THEN 0
    ELSE Head(option_chain)[column] + Sum(Tail(option_chain), column)

\* Lines 777-778 without the test of the denominator.
Ratio_Unguarded(put, call) == [num |-> put, den |-> call]

\* `put / call if call > 0 else 0` (lines 777-778): the quotient as a
\* fraction.  Totals of open interest are far below 2^50, where the float
\* quotient compares with the literals 1.4 and 0.6 as the fraction does
\* with 14/10 and 6/10.
Ratio(put, call) ==
    IF call > 0 THEN [num |-> put, den |-> call] ELSE [num |-> 0, den |-> 1]

\* r > n/d and r < n/d for a fraction r with a positive denominator.
GreaterThan(r, n, d) == r.num * d > n * r.den
LessThan(r, n, d) == r.num * d < n * r.den

\* Lines 780-788 with both comparisons made inclusive.
Sentiment_Inclusive(pcr_oi) ==
    IF ~LessThan(pcr_oi, 14, 10) THEN "OVERSOLD"
    ELSE IF ~GreaterThan(pcr_oi, 6, 10) THEN "OVERBOUGHT"
    ELSE "NEUTRAL"

\* Lines 780-788: the sentiment of an OI ratio.
Sentiment(pcr_oi) ==
    IF GreaterThan(pcr_oi, 14, 10) THEN "OVERSOLD"
    ELSE IF LessThan(pcr_oi, 6, 10) THEN "OVERBOUGHT"
    ELSE "NEUTRAL"

\* Lines 780-788: the interpretation that goes with a sentiment.
Interpretation(sentiment) ==
    CASE sentiment = "OVERSOLD" -> "Excessive put buildup - potential bounce"
      [] sentiment = "OVERBOUGHT" -> "Excessive call buildup - potential correction"
      [] OTHER -> "Balanced options activity"

\* calculate_pcr(option_chain), lines 770-797.
CalculatePcr(option_chain) ==
    LET total_call_oi == Sum(option_chain, "CE_OI")
        total_put_oi == Sum(option_chain, "PE_OI")
        total_call_vol == Sum(option_chain, "CE_Volume")
        total_put_vol == Sum(option_chain, "PE_Volume")
        pcr_oi == Ratio(total_put_oi, total_call_oi)
    IN  [pcr_oi |-> pcr_oi,
         pcr_volume |-> Ratio(total_put_vol, total_call_vol),
         total_call_oi |-> total_call_oi,
         total_put_oi |-> total_put_oi,
         sentiment |-> Sentiment(pcr_oi),
         interpretation |-> Interpretation(Sentiment(pcr_oi))]

\* ------------------------------------------------------------- inputs
\* Open interest and volume of one side of one strike.
OpenInterests == {0, 2, 3, 5}
Volumes == {0, 4}

ChainRows ==
    [CE_OI : OpenInterests, PE_OI : OpenInterests,
     CE_Volume : Volumes, PE_Volume : Volumes]

\* The option chains of at most MaxRows rows.
PcrChains == UNION {[1 .. n -> ChainRows] : n \in 0 .. MaxRows}

NoPcr ==
    [pcr_oi |-> Ratio(0, 0), pcr_volume |-> Ratio(0, 0), total_call_oi |-> 0,
     total_put_oi |-> 0, sentiment |-> "", interpretation |-> ""]

\* ------------------------------------------------------------ actions
InitPcr ==
    /\ AuthIdle /\ KeysIdle /\ ExpiryIdle /\ DataIdle
    /\ INSTRUMENT_MASTER = EmptyIndex
    /\ an \in {[pc |-> "called", op |-> "calculate_pcr", option_chain |-> c,
                 result |-> NoPcr] : c \in PcrChains}

\* calculate_pcr runs on the chain it was given.
CalculatePcr_Call ==
    /\ an.pc = "called"
    /\ an.op = "calculate_pcr"
    /\ an' = [an EXCEPT !.pc = "returned",
                        !.result = CalculatePcr(an.option_chain)]
    /\ UNCHANGED <<authVars, INSTRUMENT_MASTER, keyVars, expiryVars, dataVars>>

NextPcr == CalculatePcr_Call

SpecPcr == InitPcr /\ [][NextPcr]_vars

\* ---------------------------------------------------------------- C20
Sentiments == {"OVERSOLD", "OVERBOUGHT", "NEUTRAL"}

\* C20: for every pair of non-negative totals of put and call open
\* interest calculate_pcr yields exactly one sentiment: OVERSOLD exactly
\* when put/call > 1.4, OVERBOUGHT exactly when put/call < 0.6 (the ratio is
\* 0 when the call total is 0), NEUTRAL exactly when 0.6 <= put/call <= 1.4,
\* the values 0.6 and 1.4 themselves included.
C20_BandsTotalExclusive ==
    an.pc = "returned" =>
        LET put == Sum(an.option_chain, "PE_OI")
            call == Sum(an.option_chain, "CE_OI")
            s == an.result.sentiment
        IN  /\ s \in Sentiments
            /\ call = 0 => s = "OVERBOUGHT"
            /\ call > 0 =>
                 /\ s = "OVERSOLD" <=> 5 * put > 7 * call
                 /\ s = "OVERBOUGHT" <=> 5 * put < 3 * call
                 /\ s = "NEUTRAL" <=> (3 * call <= 5 * put /\ 5 * put <= 7 * call)

\* A chain whose put total is exactly 1.4 times its call total was
\* classified NEUTRAL.
C20_Witness ==
    /\ an.pc = "returned"
    /\ an.result.total_call_oi > 0
    /\ 5 * an.result.total_put_oi = 7 * an.result.total_call_oi
    /\ an.result.sentiment = "NEUTRAL"

\* ---------------------------------------------------------------- C21
\* A fraction that is the number 0, and one that equals put / call.
IsZero(r) == r.num = 0 /\ r.den > 0
IsQuotient(r, put, call) == r.den > 0 /\ r.num * call = put * r.den

\* C21: calculate_pcr does not fail on a zero denominator: with a call OI
\* total of 0 the OI ratio is 0 and with a call volume total of 0 the volume
\* ratio is 0, whatever the put totals; otherwise the ratios are
\* putOI / callOI and putVolume / callVolume over the chain given.
C21_ZeroDenominator ==
    an.pc = "returned" =>
        LET put == Sum(an.option_chain, "PE_OI")
            call == Sum(an.option_chain, "CE_OI")
            put_vol == Sum(an.option_chain, "PE_Volume")
            call_vol == Sum(an.option_chain, "CE_Volume")
        IN  /\ call = 0 => IsZero(an.result.pcr_oi)
            /\ call > 0 => IsQuotient(an.result.pcr_oi, put, call)
            /\ call_vol = 0 => IsZero(an.result.pcr_volume)
            /\ call_vol > 0 => IsQuotient(an.result.pcr_volume, put_vol, call_vol)

\* A chain with puts but no call open interest and no call volume got
\* the ratios 0 and 0.
C21_Witness ==
    /\ an.pc = "returned"
    /\ Sum(an.option_chain, "CE_OI") = 0
    /\ Sum(an.option_chain, "PE_OI") > 0
    /\ Sum(an.option_chain, "CE_Volume") = 0
    /\ Sum(an.option_chain, "PE_Volume") > 0
    /\ IsZero(an.result.pcr_oi)
    /\ IsZero(an.result.pcr_volume)

\* ============================================ analytics over a full chain
\* The rows get_option_chain builds (lines 498-552) and the analytics that
\* read them: _filter_liquid_strikes (730-755), calculate_max_pain
\* (799-822), calculate_greeks_analysis (669-728), get_oi_analysis (824-837).

\* ------------------------------------------------------------- bounds
\* Strikes of an option chain.
MaxStrikes == 3

\* ------------------------------------------------------------- values
\* None in a payload, NaN in a numeric column.
NoneValue == 0 - 1
IsNa(v) == v = NoneValue
FillNa0(v) == IF IsNa(v) THEN 0 ELSE v

Abs(x) == IF x < 0 THEN 0 - x ELSE x

\* Lines 538-539: `oi - prev if oi and prev else 0`.
OiChange(oi, prev) == IF oi # 0 /\ prev # 0 THEN oi - prev ELSE 0

\* item.get("call_options", {}) and its market_data and option_greeks.
Side(oi, prev_oi, volume, iv, gamma) ==
    [oi |-> oi, prev_oi |-> prev_oi, volume |-> volume, iv |-> iv,
     gamma |-> gamma, delta |-> NoneValue, theta |-> NoneValue,
     vega |-> NoneValue]

\* One element of data["data"] of an option-chain payload.
Item(strike_price, call_options, put_options) ==
    [strike_price |-> strike_price, call_options |-> call_options,
     put_options |-> put_options]

\* Lines 513-539: the row of one item (the price columns LTP, Bid and Ask,
\* which no analytics reads, are left out).
RowOf(item) ==
    [strike |-> item.strike_price,
     CE_Volume |-> item.call_options.volume,
     CE_OI |-> item.call_options.oi,
     CE_OI_Prev |-> item.call_options.prev_oi,
     CE_IV |-> item.call_options.iv,
     CE_Delta |-> item.call_options.delta,
     CE_Gamma |-> item.call_options.gamma,
     CE_Theta |-> item.call_options.theta,
     CE_Vega |-> item.call_options.vega,
     PE_Volume |-> item.put_options.volume,
     PE_OI |-> item.put_options.oi,
     PE_OI_Prev |-> item.put_options.prev_oi,
     PE_IV |-> item.put_options.iv,
     PE_Delta |-> item.put_options.delta,
     PE_Gamma |-> item.put_options.gamma,
     PE_Theta |-> item.put_options.theta,
     PE_Vega |-> item.put_options.vega,
     CE_OI_Change |-> OiChange(item.call_options.oi, item.call_options.prev_oi),
     PE_OI_Change |-> OiChange(item.put_options.oi, item.put_options.prev_oi)]

\* Lines 498-541: the rows of the items that have a strike_price.
RECURSIVE RowsOf(_)
RowsOf(items) ==
    IF items = << >> THEN << >>
    ELSE IF Head(items).strike_price = NoneStrike THEN RowsOf(Tail(items))
    ELSE <<RowOf(Head(items))>> \o RowsOf(Tail(items))

\* sort_values("strike") (line 549) of rows with distinct strikes.
RECURSIVE SortByStrike(_)
SortByStrike(rows) ==
    IF rows = << >> THEN << >>
    ELSE LET i == CHOOSE i \in 1 .. Len(rows) :
                      \A j \in 1 .. Len(rows) : rows[i].strike <= rows[j].strike
         IN  <<rows[i]>> \o
             SortByStrike(SubSeq(rows, 1, i - 1) \o SubSeq(rows, i + 1, Len(rows)))

\* Lines 738-740 with `<` for `<=`.
WithinDistance_Strict(row, spot_price, max_distance_pct) ==
    Abs(row.strike - spot_price) * 100 < max_distance_pct * spot_price

\* Lines 738-740: abs((strike - spot) / spot) * 100 <= max_distance_pct,
\* for a positive spot price.
WithinDistance(row, spot_price, max_distance_pct) ==
    Abs(row.strike - spot_price) * 100 <= max_distance_pct * spot_price

\* Lines 743-748: the has_liquidity column.
HasLiquidity(row) ==
    \/ row.CE_OI + row.PE_OI > 100
    \/ row.CE_Volume + row.PE_Volume > 10
    \/ ~IsNa(row.CE_IV)
    \/ ~IsNa(row.PE_IV)

\* _filter_liquid_strikes(option_chain, spot_price, max_distance_pct), lines
\* 730-755: the rows of a copy that pass both masks, in their order.
FilterLiquidStrikes(option_chain, spot_price, max_distance_pct) ==
    LET Keep(row) == /\ WithinDistance(row, spot_price, max_distance_pct)
                     /\ HasLiquidity(row)
    IN  SelectSeq(option_chain, Keep)

\* Lines 545-552: the DataFrame get_option_chain returns for its rows.
ChainOfRows(rows, spot_price, max_distance_pct) ==
    IF rows = << >> THEN << >>
    ELSE FilterLiquidStrikes(SortByStrike(rows), spot_price, max_distance_pct)

\* The first index of a smallest and of a largest value (np.argmin, idxmin,
\* idxmax).
ArgMin(values) ==
    CHOOSE i \in 1 .. Len(values) :
        /\ \A j \in 1 .. Len(values) : values[i] <= values[j]
        /\ \A j \in 1 .. i - 1 : values[j] > values[i]
ArgMax(values) ==
    CHOOSE i \in 1 .. Len(values) :
        /\ \A j \in 1 .. Len(values) : values[i] >= values[j]
        /\ \A j \in 1 .. i - 1 : values[j] < values[i]

\* Lines 805-806 and 808-809: the sums over the strikes below and above.
RECURSIVE CallPain(_, _)
CallPain(option_chain, strike) ==
    IF option_chain = << >> THEN 0
    ELSE (IF Head(option_chain).strike < strike
          THEN Head(option_chain).CE_OI * (strike - Head(option_chain).strike)
          ELSE 0) + CallPain(Tail(option_chain), strike)
RECURSIVE PutPain(_, _)
PutPain(option_chain, strike) ==
    IF option_chain = << >> THEN 0
    ELSE (IF Head(option_chain).strike > strike
          THEN Head(option_chain).PE_OI * (Head(option_chain).strike - strike)
          ELSE 0) + PutPain(Tail(option_chain), strike)

\* Lines 804-811 without put_pain.
MaxPainValues_CallsOnly(option_chain) ==
    [i \in 1 .. Len(option_chain) |->
        CallPain(option_chain, option_chain[i].strike)]

\* Lines 804-811: max_pain_values.
MaxPainValues(option_chain) ==
    [i \in 1 .. Len(option_chain) |->
        CallPain(option_chain, option_chain[i].strike)
        + PutPain(option_chain, option_chain[i].strike)]

ChainRaised(exc) == [kind |-> "raise", exc |-> exc]

\* calculate_max_pain(option_chain, current_price), lines 799-822; np.argmin
\* of an empty list raises ValueError.
CalculateMaxPain(option_chain, current_price) ==
    IF option_chain = << >> THEN ChainRaised("ValueError")
    ELSE LET max_pain_strike ==
                 option_chain[ArgMin(MaxPainValues(option_chain))].strike
         IN  [kind |-> "return",
              max_pain_strike |-> max_pain_strike,
              distance_pct |-> [num |-> (max_pain_strike - current_price) * 100,
                                den |-> current_price]]

\* Lines 685-686, 699-700, 705-706: (column.fillna(0) * OI).sum() for the
\* call and the put column of one greek, added up.
RECURSIVE Exposure(_, _, _)
Exposure(option_chain, ce_column, pe_column) ==
    IF option_chain = << >> THEN 0
    ELSE FillNa0(Head(option_chain)[ce_column]) * Head(option_chain).CE_OI
         + FillNa0(Head(option_chain)[pe_column]) * Head(option_chain).PE_OI
         + Exposure(Tail(option_chain), ce_column, pe_column)

\* Lines 690-693: the value of the total_gamma column in one row.
TotalGamma(row) ==
    FillNa0(row.CE_Gamma) * row.CE_OI + FillNa0(row.PE_Gamma) * row.PE_OI

\* Lines 690-693: `option_chain["total_gamma"] = ...` sets the column in
\* the DataFrame that was passed in.
WithTotalGamma(option_chain) ==
    [i \in 1 .. Len(option_chain) |->
        ("total_gamma" :> TotalGamma(option_chain[i])) @@ option_chain[i]]

\* Lines 710-715 without the neutral case.
DeltaInterpretation_NoNeutral(net_delta) ==
    IF net_delta >= 0 THEN "Net LONG bias" ELSE "Net SHORT bias"

\* The sign of net_delta as lines 710-715 interpret it.
DeltaInterpretation(net_delta) ==
    IF net_delta > 0 THEN "Net LONG bias"
    ELSE IF net_delta < 0 THEN "Net SHORT bias"
    ELSE "Delta neutral"

\* calculate_greeks_analysis(option_chain, spot_price), lines 669-728: idxmin
\* of an empty column raises ValueError.
CalculateGreeksAnalysis(option_chain, spot_price) ==
    IF option_chain = << >> THEN ChainRaised("ValueError")
    ELSE LET atm_idx == ArgMin([i \in 1 .. Len(option_chain) |->
                                   Abs(option_chain[i].strike - spot_price)])
             net_delta == Exposure(option_chain, "CE_Delta", "PE_Delta")
             max_gamma_idx == ArgMax([i \in 1 .. Len(option_chain) |->
                                         TotalGamma(option_chain[i])])
         IN  [kind |-> "return",
              net_delta |-> net_delta,
              delta_interpretation |-> DeltaInterpretation(net_delta),
              max_gamma_strike |-> option_chain[max_gamma_idx].strike,
              total_theta |-> Exposure(option_chain, "CE_Theta", "PE_Theta"),
              total_vega |-> Exposure(option_chain, "CE_Vega", "PE_Vega"),
              atm_call_iv |-> option_chain[atm_idx].CE_IV,
              atm_put_iv |-> option_chain[atm_idx].PE_IV]

\* The DataFrame passed to calculate_greeks_analysis when it has returned.
ChainAfterGreeks(option_chain) ==
    IF option_chain = << >> THEN option_chain ELSE WithTotalGamma(option_chain)

\* option_chain[option_chain[column] > 0].nlargest(5, column)["strike"]
\* (lines 829-836): the strikes by falling value, earlier rows first among
\* equals.
RECURSIVE NLargest(_, _, _)
NLargest(rows, column, n) ==
    IF rows = << >> \/ n = 0 THEN << >>
    ELSE LET i == ArgMax([j \in 1 .. Len(rows) |-> rows[j][column]])
         IN  <<rows[i].strike>> \o
             NLargest(SubSeq(rows, 1, i - 1) \o SubSeq(rows, i + 1, Len(rows)),
                      column, n - 1)

Buildups(option_chain, column) ==
    LET Positive(row) == row[column] > 0
    IN  NLargest(SelectSeq(option_chain, Positive), column, 5)

\* get_oi_analysis(option_chain), lines 824-837.
GetOiAnalysis(option_chain) ==
    IF option_chain = << >> THEN ChainRaised("ValueError")
    ELSE [kind |-> "return",
          call_resistance |->
              option_chain[ArgMax([i \in 1 .. Len(option_chain) |->
                                      option_chain[i].CE_OI])].strike,
          put_support |->
              option_chain[ArgMax([i \in 1 .. Len(option_chain) |->
                                      option_chain[i].PE_OI])].strike,
          call_buildups |-> Buildups(option_chain, "CE_OI_Change"),
          put_buildups |-> Buildups(option_chain, "PE_OI_Change")]

\* ------------------------------------------------------------- inputs
\* The first n strikes.
Strikes(n) == {100 + 10 * (i - 1) : i \in 1 .. n}

\* The strikes of a set in rising order.
StrikeSeq(S) ==
    CHOOSE f \in [1 .. Cardinality(S) -> S] :
        \A i, j \in 1 .. Cardinality(S) : i < j => f[i] < f[j]

\* The chain of the strikes ss with the (call, put) sides f.
ChainWith(ss, f) ==
    [i \in 1 .. Len(ss) |-> RowOf(Item(ss[i], f[i][1], f[i][2]))]

\* Sides for calculate_max_pain: open interest 0, 20 or 50 per side.
PainSides ==
    {<<Side(c, 0, 0, NoneValue, NoneValue), Side(p, 0, 0, NoneValue, NoneValue)>> :
        c \in {0, 20, 50}, p \in {0, 20, 50}}

\* Sides for _filter_liquid_strikes: open interest of 100 or 110 per strike,
\* volume of 10 or 11, the put IV present or not, and the call IV present
\* where nothing else is.
FilterSides ==
    {<<Side(50, 0, 5, NoneValue, NoneValue), Side(oi, 0, volume, iv, NoneValue)>> :
        oi \in {50, 60}, volume \in {5, 6}, iv \in {NoneValue, 15}}
    \cup {<<Side(50, 0, 5, 15, NoneValue), Side(50, 0, 5, NoneValue, NoneValue)>>}

\* Sides for the other analytics: calls that were built up, unwound or
\* closed, with or without a gamma.
GreekSides ==
    {<<Side(c[1], c[2], 5, NoneValue, gamma), Side(60, 50, 6, 15, NoneValue)>> :
        c \in {<<60, 50>>, <<50, 60>>, <<0, 50>>}, gamma \in {NoneValue, 2}}

\* Sides with deltas (in tenths): the call's delta 0.6 or missing on an
\* open interest of 50 or 60, with or without a gamma; the put's delta
\* -0.5 or missing on an open interest of 60.
DeltaSides ==
    {<<[Side(oi, 50, 5, NoneValue, gamma) EXCEPT !.delta = cd],
       [Side(60, 50, 6, NoneValue, NoneValue) EXCEPT !.delta = pd]>> :
        oi \in {50, 60}, gamma \in {NoneValue, 2}, cd \in {NoneValue, 6},
        pd \in {NoneValue, 0 - 5}}

\* Sides of the items of a payload: each side open before and now, or
\* open only before, or only now.
PayloadSides ==
    {<<Side(c[1], c[2], 6, NoneValue, NoneValue),
       Side(60, 50, 6, NoneValue, NoneValue)>> :
        c \in {<<60, 50>>, <<0, 50>>, <<60, 0>>}}
    \cup {<<Side(60, 50, 6, NoneValue, NoneValue),
            Side(0, 50, 6, NoneValue, NoneValue)>>}

\* data["data"] of an option-chain payload: the items of the strikes ss
\* with the sides f.
ItemsWith(ss, f) ==
    [i \in 1 .. Len(ss) |-> Item(ss[i], f[i][1], f[i][2])]

\* The orders in which a payload may list k items of distinct strikes, one
\* of which may lack its strike_price.
PayloadStrikes(k, n) ==
    {g \in [1 .. k -> Strikes(n) \cup {NoneStrike}] :
        \A i, j \in 1 .. k : i # j => g[i] # g[j]}

NoChainResult == [kind |-> "none"]

\* A call of one of the analytics, or the tail of get_option_chain.
ChainCall(op, items, option_chain, spot_price, max_distance_pct) ==
    [pc |-> "called", op |-> op, items |-> items, rows |-> << >>,
     option_chain |-> option_chain, spot_price |-> spot_price,
     max_distance_pct |-> max_distance_pct, result |-> NoChainResult]

\* ------------------------------------------------------------ actions
\* One of the analytics is called with a chain over some of the strikes, in
\* rising order, or get_option_chain has received a success payload.
InitChain ==
    /\ AuthIdle /\ KeysIdle /\ ExpiryIdle /\ DataIdle
    /\ INSTRUMENT_MASTER = EmptyIndex
    /\ \/ \E S \in SUBSET Strikes(MaxStrikes) :
            LET ss == StrikeSeq(S)
            IN  \/ \E f \in [1 .. Len(ss) -> PainSides], p \in {100, 115} :
                      an = ChainCall("calculate_max_pain", << >>,
                                     ChainWith(ss, f), p, 0)
                \/ \E f \in [1 .. Len(ss) -> FilterSides], d \in {5, 10} :
                      an = ChainCall("_filter_liquid_strikes", << >>,
                                     ChainWith(ss, f), 100, d)
                \/ \E f \in [1 .. Len(ss) -> GreekSides], p \in {100, 115} :
                      an = ChainCall("calculate_greeks_analysis", << >>,
                                     ChainWith(ss, f), p, 0)
                \/ \E f \in [1 .. Len(ss) -> DeltaSides] :
                      an = ChainCall("calculate_greeks_analysis", << >>,
                                     ChainWith(ss, f), 100, 0)
                \/ \E f \in [1 .. Len(ss) -> GreekSides],
                         op \in {"get_oi_analysis", "calculate_pcr"} :
                      an = ChainCall(op, << >>, ChainWith(ss, f), 100, 0)
       \/ \E k \in 0 .. MaxStrikes :
            \E ss \in PayloadStrikes(k, MaxStrikes), f \in [1 .. k -> PayloadSides] :
                an = ChainCall("get_option_chain", ItemsWith(ss, f), << >>, 100, 10)

ChainUnchanged ==
    UNCHANGED <<authVars, INSTRUMENT_MASTER, keyVars, expiryVars, dataVars>>

\* calculate_max_pain runs on the chain it was given.
CalculateMaxPain_Call ==
    /\ an.pc = "called"
    /\ an.op = "calculate_max_pain"
    /\ an' = [an EXCEPT !.pc = "returned",
                        !.result = CalculateMaxPain(an.option_chain,
                                                    an.spot_price)]
    /\ ChainUnchanged

\* _filter_liquid_strikes runs on the chain it was given.
FilterLiquidStrikes_Call ==
    /\ an.pc = "called"
    /\ an.op = "_filter_liquid_strikes"
    /\ an' = [an EXCEPT !.pc = "returned",
                        !.result = FilterLiquidStrikes(an.option_chain,
                                                       an.spot_price,
                                                       an.max_distance_pct)]
    /\ ChainUnchanged

\* calculate_greeks_analysis runs on the chain it was given.
CalculateGreeksAnalysis_Call ==
    /\ an.pc = "called"
    /\ an.op = "calculate_greeks_analysis"
    /\ an' = [an EXCEPT !.pc = "returned",
                        !.option_chain = ChainAfterGreeks(an.option_chain),
                        !.result = CalculateGreeksAnalysis(an.option_chain,
                                                           an.spot_price)]
    /\ ChainUnchanged

\* get_oi_analysis runs on the chain it was given.
GetOiAnalysis_Call ==
    /\ an.pc = "called"
    /\ an.op = "get_oi_analysis"
    /\ an' = [an EXCEPT !.pc = "returned",
                        !.result = GetOiAnalysis(an.option_chain)]
    /\ ChainUnchanged

\* get_option_chain turns a success payload into its DataFrame (lines
\* 498-552).
GetOptionChain_Rows ==
    /\ an.pc = "called"
    /\ an.op = "get_option_chain"
    /\ an' = [an EXCEPT !.pc = "returned",
                        !.rows = RowsOf(an.items),
                        !.result = ChainOfRows(RowsOf(an.items), an.spot_price,
                                               an.max_distance_pct)]
    /\ ChainUnchanged

NextChain ==
    \/ CalculatePcr_Call
    \/ CalculateMaxPain_Call
    \/ FilterLiquidStrikes_Call
    \/ CalculateGreeksAnalysis_Call
    \/ GetOiAnalysis_Call
    \/ GetOptionChain_Rows

SpecChain == InitChain /\ [][NextChain]_vars

\* ---------------------------------------------------------------- C22
\* pain(K) of the first n rows of a chain: callOI(s) * (K - s) over the
\* strikes s < K plus putOI(s) * (s - K) over the strikes s > K.
RECURSIVE PainUpTo(_, _, _)
PainUpTo(chain, K, n) ==
    IF n = 0 THEN 0
    ELSE PainUpTo(chain, K, n - 1)
         + (IF chain[n].strike < K THEN chain[n].CE_OI * (K - chain[n].strike)
            ELSE IF chain[n].strike > K
            THEN chain[n].PE_OI * (chain[n].strike - K)
            ELSE 0)
PainAt(chain, K) == PainUpTo(chain, K, Len(chain))

\* The chain of the strikes 100, 110, 120 with call OI 0, 50, 0 and put OI
\* 0, 50, 0.
IsPainExample(chain) ==
    /\ Len(chain) = 3
    /\ [i \in 1 .. 3 |-> chain[i].strike] = <<100, 110, 120>>
    /\ [i \in 1 .. 3 |-> chain[i].CE_OI] = <<0, 50, 0>>
    /\ [i \in 1 .. 3 |-> chain[i].PE_OI] = <<0, 50, 0>>

\* C22: on a chain that has rows calculate_max_pain returns a strike K of
\* the chain of which no other strike of the chain has a strictly smaller
\* pain(K); the strikes 100, 110, 120 with call OI 0, 50, 0 and put OI
\* 0, 50, 0 give 110.
C22_MaxPainMinimizes ==
    (an.pc = "returned" /\ an.op = "calculate_max_pain"
       /\ an.option_chain # << >>) =>
        /\ an.result.kind = "return"
        /\ \E i \in 1 .. Len(an.option_chain) :
              an.option_chain[i].strike = an.result.max_pain_strike
        /\ \A j \in 1 .. Len(an.option_chain) :
              PainAt(an.option_chain, an.option_chain[j].strike)
                >= PainAt(an.option_chain, an.result.max_pain_strike)
        /\ IsPainExample(an.option_chain) => an.result.max_pain_strike = 110

\* The chain of the example was given and 110 returned.
C22_Witness ==
    /\ an.pc = "returned"
    /\ an.op = "calculate_max_pain"
    /\ IsPainExample(an.option_chain)
    /\ an.result.max_pain_strike = 110

\* ---------------------------------------------------------------- C23
InChain(row, chain) == \E i \in 1 .. Len(chain) : chain[i] = row

RisingStrikes(chain) ==
    \A i, j \in 1 .. Len(chain) : i < j => chain[i].strike < chain[j].strike

\* |strike - spot| / spot * 100 is at most pct, for a positive spot.
NearSpot(row, spot, pct) ==
    IF row.strike >= spot THEN (row.strike - spot) * 100 <= pct * spot
    ELSE (spot - row.strike) * 100 <= pct * spot

\* At least one of the four signs of liquidity.
Liquid(row) ==
    \/ row.CE_OI + row.PE_OI > 100
    \/ row.CE_Volume + row.PE_Volume > 10
    \/ row.CE_IV # NoneValue
    \/ row.PE_IV # NoneValue

\* The chain that went through the filter and the chain that came out.
FilterInput == IF an.op = "get_option_chain" THEN an.rows ELSE an.option_chain

\* C23: _filter_liquid_strikes retains exactly the rows whose distance from
\* the spot price is at most max_distance_pct and that have a call plus put
\* OI above 100, a call plus put volume above 10, a call IV or a put IV;
\* every other row is dropped, and the rows retained are in rising order of
\* strike.
C23_RetainsExactlyLiquid ==
    (an.pc = "returned" /\ an.op \in {"_filter_liquid_strikes", "get_option_chain"}) =>
        /\ \A i \in 1 .. Len(FilterInput) :
              InChain(FilterInput[i], an.result) <=>
                  /\ NearSpot(FilterInput[i], an.spot_price, an.max_distance_pct)
                  /\ Liquid(FilterInput[i])
        /\ \A i \in 1 .. Len(an.result) : InChain(an.result[i], FilterInput)
        /\ RisingStrikes(an.result)

\* Of three strikes the filter kept the one that is exactly
\* max_distance_pct away, dropped the one further away and dropped one that
\* is near but has none of the four signs.
C23_Witness ==
    /\ an.pc = "returned"
    /\ an.op = "_filter_liquid_strikes"
    /\ Len(an.option_chain) = 3
    /\ \E i, j, k \in 1 .. 3 :
          /\ (an.option_chain[i].strike - an.spot_price) * 100
                = an.max_distance_pct * an.spot_price
          /\ InChain(an.option_chain[i], an.result)
          /\ ~NearSpot(an.option_chain[j], an.spot_price, an.max_distance_pct)
          /\ Liquid(an.option_chain[j])
          /\ ~InChain(an.option_chain[j], an.result)
          /\ NearSpot(an.option_chain[k], an.spot_price, an.max_distance_pct)
          /\ ~Liquid(an.option_chain[k])
          /\ ~InChain(an.option_chain[k], an.result)

\* ---------------------------------------------------------------- C24
Analytics ==
    {"calculate_pcr", "calculate_max_pain", "calculate_greeks_analysis",
     "get_oi_analysis", "_filter_liquid_strikes"}

\* C24: the analytics do not change their input: when calculate_pcr,
\* calculate_max_pain, calculate_greeks_analysis, get_oi_analysis or
\* _filter_liquid_strikes returns, the chain that was passed in has the rows,
\* the columns and the values it had when the call was made.
C24_InputUnchanged ==
    [][(an.pc = "called" /\ an.op \in Analytics /\ an'.pc = "returned") =>
          an'.option_chain = an.option_chain]_vars

\* ========================================================= futures basis
\* The basis of get_futures_data (lines 624-647) and _interpret_basis
\* (lines 658-667).

\* ------------------------------------------------------------- bounds
\* Largest distance of the futures price from the spot price.
MaxBasis == 30

\* ------------------------------------------------------------- values
\* Lines 660-667 with the first comparison made inclusive.
InterpretBasis_Inclusive(basis_pct) ==
    IF ~LessThan(basis_pct, 5, 10) THEN "Premium - Strong bullish sentiment"
    ELSE IF GreaterThan(basis_pct, 2, 10) THEN "Premium - Mild bullish sentiment"
    ELSE IF LessThan(basis_pct, 0 - 2, 10) THEN "Discount - Bearish sentiment"
    ELSE "Fair pricing - Neutral sentiment"

\* _interpret_basis(basis_pct), lines 658-667: the text without the number.
InterpretBasis(basis_pct) ==
    IF GreaterThan(basis_pct, 5, 10) THEN "Premium - Strong bullish sentiment"
    ELSE IF GreaterThan(basis_pct, 2, 10) THEN "Premium - Mild bullish sentiment"
    ELSE IF LessThan(basis_pct, 0 - 2, 10) THEN "Discount - Bearish sentiment"
    ELSE "Fair pricing - Neutral sentiment"

\* Lines 625-626 and 646: basis, basis_pct = (basis / spot_price) * 100 as a
\* fraction, and its interpretation, for prices that are not 0.
Basis(futures_ltp, spot_price) ==
    LET basis == futures_ltp - spot_price
        basis_pct == [num |-> basis * 100, den |-> spot_price]
    IN  [basis |-> basis, basis_pct |-> basis_pct,
         interpretation |-> InterpretBasis(basis_pct)]

\* ------------------------------------------------------------- inputs
BasisSpots == {100, 1000}

NoBasis ==
    [basis |-> 0, basis_pct |-> [num |-> 0, den |-> 1], interpretation |-> ""]

\* ------------------------------------------------------------ actions
InitBasis ==
    /\ AuthIdle /\ KeysIdle /\ ExpiryIdle /\ DataIdle
    /\ INSTRUMENT_MASTER = EmptyIndex
    /\ \E s \in BasisSpots, f \in 0 - MaxBasis .. MaxBasis :
          an = [pc |-> "called", op |-> "_interpret_basis",
                futures_ltp |-> s + f, spot_price |-> s, result |-> NoBasis]

\* get_futures_data has both prices and interprets their basis.
InterpretBasis_Call ==
    /\ an.pc = "called"
    /\ an.op = "_interpret_basis"
    /\ an' = [an EXCEPT !.pc = "returned",
                        !.result = Basis(an.futures_ltp, an.spot_price)]
    /\ UNCHANGED <<authVars, INSTRUMENT_MASTER, keyVars, expiryVars, dataVars>>

NextBasis == InterpretBasis_Call

SpecBasis == InitBasis /\ [][NextBasis]_vars

\* ---------------------------------------------------------------- C25
\* C25: with basisPct = (futuresPrice - spot) / spot * 100 every value gets
\* exactly one band: strong bullish premium when basisPct > 0.5, mild
\* bullish when 0.2 < basisPct <= 0.5, bearish discount when
\* basisPct < -0.2, neutral when -0.2 <= basisPct <= 0.2; futuresPrice 105
\* and spot 100 give basisPct +5.0 and the strong bullish premium band.
C25_BasisBands ==
    an.pc = "returned" =>
        LET d == an.futures_ltp - an.spot_price
            s == an.spot_price
            band == an.result.interpretation
        IN  /\ IsQuotient(an.result.basis_pct, d * 100, s)
            /\ band = "Premium - Strong bullish sentiment" <=> 200 * d > s
            /\ band = "Premium - Mild bullish sentiment" <=>
                  (500 * d > s /\ 200 * d <= s)
            /\ band = "Discount - Bearish sentiment" <=> 500 * d < 0 - s
            /\ band = "Fair pricing - Neutral sentiment" <=>
                  (500 * d >= 0 - s /\ 500 * d <= s)
            /\ (an.futures_ltp = 105 /\ s = 100) =>
                  /\ IsQuotient(an.result.basis_pct, 5, 1)
                  /\ band = "Premium - Strong bullish sentiment"

\* The futures price 105 over the spot price 100 was interpreted as a
\* premium of 5 percent, strong bullish.
C25_Witness ==
    /\ an.pc = "returned"
    /\ an.futures_ltp = 105
    /\ an.spot_price = 100
    /\ IsQuotient(an.result.basis_pct, 5, 1)
    /\ an.result.interpretation = "Premium - Strong bullish sentiment"

\* ---------------------------------------------------------------- C26
\* C26: in every row get_option_chain builds the OI change of the call
\* side and of the put side is oi - oiPrev, whatever the two values are, 0
\* included.
C26_OiChangeIsDifference ==
    (an.pc = "returned" /\ an.op = "get_option_chain") =>
        \A i \in 1 .. Len(an.rows) :
            /\ an.rows[i].CE_OI_Change = an.rows[i].CE_OI - an.rows[i].CE_OI_Prev
            /\ an.rows[i].PE_OI_Change = an.rows[i].PE_OI - an.rows[i].PE_OI_Prev

\* ===================================================== the Index Builder
\* preprocess_nse_data (preprocess_nse_data.py lines 64-157): the catalog
\* rows are filed one by one under the symbols of SYMBOL_MAP, then every
\* contract list is sorted and the index is written.

\* ------------------------------------------------------------- bounds
\* Rows of the catalog.
MaxCatalog == 3

\* ------------------------------------------------------------- values
\* SYMBOL_MAP (line 33) and its inverse (line 71), for two of its symbols.
AppSymbols == {"^NSEI", "RELIANCE.NS"}
UpstoxToApp(us) ==
    CASE us = "NIFTY" -> "^NSEI"
      [] us = "RELIANCE" -> "RELIANCE.NS"
      [] OTHER -> ""
SymbolMap(app_symbol) == IF app_symbol = "^NSEI" THEN "NIFTY" ELSE "RELIANCE"

\* Line 66: the entry every symbol starts with.
EmptyEntry ==
    [SPOT |-> NoSpot, OPTIDX |-> << >>, FUTIDX |-> << >>, OPTSTK |-> << >>,
     FUTSTK |-> << >>]

\* A row of the catalog; expiry is a day number, 0 when the row has none,
\* weekly is "true", "false" or "absent".
CatalogRow(segment, us, trading_symbol, instrument_type, expiry, weekly, strike_price) ==
    [segment |-> segment, underlying_symbol |-> us,
     trading_symbol |-> trading_symbol, instrument_type |-> instrument_type,
     expiry |-> expiry, weekly |-> weekly, strike_price |-> strike_price]

\* Lines 121-127: the list an F&O row goes to, "" when it goes to none.
Category(row) ==
    LET is_index == row.underlying_symbol \in {"NIFTY", "BANKNIFTY", "MIDCPNIFTY"}
    IN  CASE row.instrument_type = "FUT" -> IF is_index THEN "FUTIDX" ELSE "FUTSTK"
          [] row.instrument_type \in {"CE", "PE"} ->
                IF is_index THEN "OPTIDX" ELSE "OPTSTK"
          [] OTHER -> ""

\* Lines 130-139: the descriptor of an F&O row, the count-th of the catalog.
Descriptor(row, count) ==
    LET data == [expiry |-> row.expiry, instrument_key |-> FoKey(count),
                 monthly |-> row.weekly = "false", weekly |-> row.weekly = "true"]
    IN  IF row.instrument_type \in {"CE", "PE"}
        THEN data @@ [strike |-> row.strike_price,
                      option_type |-> row.instrument_type]
        ELSE data

\* Line 103: the row is a spot instrument.
IsSpotRow(row) ==
    /\ row.segment \in {"NSE_INDEX", "NSE_EQ"}
    /\ row.instrument_type \in {"INDEX", "EQ"}

\* Lines 105-106: is_primary.
IsPrimary(row, app_symbol) == row.trading_symbol = SymbolMap(app_symbol)

\* Lines 109-113: the SPOT descriptor of a spot row, the count-th of the
\* catalog (its 'name' is left out).
SpotDescriptor(row, count) ==
    [instrument_key |-> Key(row.segment, "|", FoNames[count]),
     trading_symbol |-> row.trading_symbol]

\* Line 108 with every spot row taken.
TakesSpot_Always(master, row, app_symbol) == TRUE

\* Line 108: `if is_primary or not instrument_master[app_symbol]["SPOT"]`.
TakesSpot(master, row, app_symbol) ==
    IsPrimary(row, app_symbol) \/ master[app_symbol].SPOT = NoSpot

\* Lines 89-141: instrument_master after one row.
AfterRow(master, row, count) ==
    LET app_symbol == UpstoxToApp(row.underlying_symbol)
    IN  IF app_symbol = "" THEN master
        ELSE IF IsSpotRow(row)
        THEN IF TakesSpot(master, row, app_symbol)
             THEN [master EXCEPT ![app_symbol].SPOT = SpotDescriptor(row, count)]
             ELSE master
        ELSE IF row.segment = "NSE_FO" /\ row.expiry # 0 /\ Category(row) # ""
        THEN [master EXCEPT ![app_symbol][Category(row)] =
                               Append(@, Descriptor(row, count))]
        ELSE master

\* strftime('%Y-%m-%d') of line 120 orders as (year, month, day) does.
IsoBefore(a, b) ==
    LET x == FromOrdinal(a)
        y == FromOrdinal(b)
    IN  \/ x.year < y.year
        \/ x.year = y.year /\ x.month < y.month
        \/ x.year = y.year /\ x.month = y.month /\ x.day < y.day

\* A date format that begins with the day orders as (day, month, year).
DayFirstBefore(a, b) ==
    LET x == FromOrdinal(a)
        y == FromOrdinal(b)
    IN  \/ x.day < y.day
        \/ x.day = y.day /\ x.month < y.month
        \/ x.day = y.day /\ x.month = y.month /\ x.year < y.year

\* x.get('strike', 0) of line 148.
StrikeOrZero(x) == IF "strike" \in DOMAIN x THEN x.strike ELSE 0

\* Line 148 with the expiry written day first.
SortKeyBefore_DayFirst(x, y) ==
    \/ DayFirstBefore(x.expiry, y.expiry)
    \/ x.expiry = y.expiry /\ StrikeOrZero(x) < StrikeOrZero(y)

\* Line 148: (x['expiry'], x.get('strike', 0)) of x is below that of y.
SortKeyBefore(x, y) ==
    \/ IsoBefore(x.expiry, y.expiry)
    \/ x.expiry = y.expiry /\ StrikeOrZero(x) < StrikeOrZero(y)

\* list.sort(key=...) of line 148: stable, smallest key first.
RECURSIVE SortContracts(_)
SortContracts(list) ==
    IF list = << >> THEN << >>
    ELSE LET i == CHOOSE i \in 1 .. Len(list) :
                      /\ \A j \in 1 .. Len(list) : ~SortKeyBefore(list[j], list[i])
                      /\ \A j \in 1 .. i - 1 : SortKeyBefore(list[i], list[j])
         IN  <<list[i]>> \o
             SortContracts(SubSeq(list, 1, i - 1) \o SubSeq(list, i + 1, Len(list)))

ContractLists == {"OPTIDX", "FUTIDX", "OPTSTK", "FUTSTK"}

\* Lines 144-149: final_master.
FinalMaster(master) ==
    LET kept == {k \in DOMAIN master :
                    \/ master[k].SPOT # NoSpot
                    \/ \E c \in ContractLists : master[k][c] # << >>}
    IN  [k \in kept |->
            [SPOT |-> master[k].SPOT,
             OPTIDX |-> SortContracts(master[k].OPTIDX),
             FUTIDX |-> SortContracts(master[k].FUTIDX),
             OPTSTK |-> SortContracts(master[k].OPTSTK),
             FUTSTK |-> SortContracts(master[k].FUTSTK)]]

\* ------------------------------------------------------------- inputs
CatalogDays == {Ordinal(2026, 11, 26), Ordinal(2026, 12, 1)}

\* Rows of the catalog: index options of two expiries and two strikes that
\* are weekly, monthly or unmarked, index and stock futures, a stock option,
\* a primary and two other spot rows, a row without expiry and a row of a symbol that
\* is not in SYMBOL_MAP.
CatalogRows ==
    {CatalogRow("NSE_FO", "NIFTY", "NIFTY CE", "CE", d, w[1], w[2]) :
        d \in CatalogDays, w \in {<<"true", 100>>, <<"false", 200>>}}
    \cup {CatalogRow("NSE_FO", "NIFTY", "NIFTY PE", "PE",
                     Ordinal(2026, 11, 26), "absent", 100)}
    \cup {CatalogRow("NSE_FO", "NIFTY", "NIFTY FUT", "FUT", d, "false", 0) :
            d \in CatalogDays}
    \cup {CatalogRow("NSE_FO", "RELIANCE", "RELIANCE FUT", "FUT",
                     Ordinal(2026, 11, 26), "false", 0),
          CatalogRow("NSE_FO", "RELIANCE", "RELIANCE CE", "CE",
                     Ordinal(2026, 11, 26), "false", 100),
          CatalogRow("NSE_INDEX", "NIFTY", "NIFTY", "INDEX", 0, "absent", 0),
          CatalogRow("NSE_EQ", "RELIANCE", "RELIANCE", "EQ", 0, "absent", 0),
          CatalogRow("NSE_EQ", "RELIANCE", "RELIANCE-BE", "EQ", 0, "absent", 0),
          CatalogRow("NSE_FO", "NIFTY", "NIFTY FUT", "FUT", 0, "false", 0),
          CatalogRow("NSE_FO", "ACC", "ACC FUT", "FUT",
                     Ordinal(2026, 11, 26), "false", 0)}

\* ------------------------------------------------------------ actions
InitPreprocess ==
    /\ AuthIdle /\ KeysIdle /\ ExpiryIdle /\ DataIdle
    /\ INSTRUMENT_MASTER = EmptyIndex
    /\ \E n \in 0 .. MaxCatalog :
         \E catalog \in [1 .. n -> CatalogRows] :
            an = [pc |-> "rows", op |-> "preprocess_nse_data",
                  catalog |-> catalog, count |-> 0,
                  instrument_master |-> [k \in AppSymbols |-> EmptyEntry]]

\* The loop of lines 84-141 takes the next row of the catalog.
Preprocess_Row ==
    /\ an.pc = "rows"
    /\ an.op = "preprocess_nse_data"
    /\ an.count < Len(an.catalog)
    /\ an' = [an EXCEPT !.count = @ + 1,
                        !.instrument_master =
                            AfterRow(@, an.catalog[an.count + 1], an.count + 1)]
    /\ UNCHANGED <<authVars, INSTRUMENT_MASTER, keyVars, expiryVars, dataVars>>

\* Lines 144-152: the lists are sorted and instrument_master.json is written.
Preprocess_Write ==
    /\ an.pc = "rows"
    /\ an.op = "preprocess_nse_data"
    /\ an.count = Len(an.catalog)
    /\ an' = [an EXCEPT !.pc = "written"]
    /\ INSTRUMENT_MASTER' = FinalMaster(an.instrument_master)
    /\ UNCHANGED <<authVars, keyVars, expiryVars, dataVars>>

NextPreprocess ==
    \/ Preprocess_Row
    \/ Preprocess_Write

SpecPreprocess == InitPreprocess /\ [][NextPreprocess]_vars

\* ---------------------------------------------------------------- C27
\* Ascending by (expiry, strike), a list without strikes by expiry.
AscendingContracts(list) ==
    \A i, j \in 1 .. Len(list) :
        i < j => \/ list[i].expiry < list[j].expiry
                 \/ /\ list[i].expiry = list[j].expiry
                    /\ StrikeOrZero(list[i]) <= StrikeOrZero(list[j])

\* C27: whatever rows of the catalog preprocess_nse_data has processed,
\* every contract list (OPTIDX, FUTIDX, OPTSTK, FUTSTK) of every symbol of
\* the index it writes is sorted ascending by (expiry, strike), and no
\* contract is both weekly and monthly.
C27_SortedAndExclusive ==
    an.pc = "written" =>
        \A k \in DOMAIN INSTRUMENT_MASTER : \A c \in ContractLists :
            /\ AscendingContracts(INSTRUMENT_MASTER[k][c])
            /\ \A i \in 1 .. Len(INSTRUMENT_MASTER[k][c]) :
                  ~(INSTRUMENT_MASTER[k][c][i].weekly
                      /\ INSTRUMENT_MASTER[k][c][i].monthly)

\* A catalog that lists a December option before two November options, a
\* weekly and a monthly one among them, was written as a sorted list of
\* three.
C27_Witness ==
    /\ an.pc = "written"
    /\ Len(an.catalog) = 3
    /\ an.catalog[1].expiry > an.catalog[2].expiry
    /\ an.catalog[2].strike_price > an.catalog[3].strike_price
    /\ "^NSEI" \in DOMAIN INSTRUMENT_MASTER
    /\ Len(INSTRUMENT_MASTER["^NSEI"].OPTIDX) = 3
    /\ AscendingContracts(INSTRUMENT_MASTER["^NSEI"].OPTIDX)
    /\ \E i, j \in 1 .. 3 : /\ INSTRUMENT_MASTER["^NSEI"].OPTIDX[i].weekly
                            /\ INSTRUMENT_MASTER["^NSEI"].OPTIDX[j].monthly

\* ---------------------------------------------------------------- C28
\* The entries of key_map that a step has stored or replaced.
StoredKeys ==
    {k \in DOMAIN key_map' : k \notin DOMAIN key_map \/ key_map'[k] # key_map[k]}

\* C28: whatever get_spot_price, get_spot_quote and get_option_chain calls
\* are made, every value stored in key_map is a key that was present in the
\* data of the success payload it was stored for, and it is stored under the
\* instrument id (produced by the resolver, or requested) of the call.
C28_KeyMapRelates ==
    [][\A k \in StoredKeys :
          /\ key_map'[k] \in Keys(md'.quote)
          /\ k \in {md.key, md.chain_key}]_vars


\* =====================================================================
\* Both resolvers on one index
\* =====================================================================
\* A futures list of one monthly contract (26 November 2026).
OneMonthly ==
    <<[expiry |-> Ordinal(2026, 11, 26), weekly |-> FALSE, monthly |-> TRUE,
       instrument_key |-> FoKey(1)]>>

\* Indexes keyed by canonical symbols, with and without contracts.
ResolveIndexes ==
    {EmptyIndex} \cup
    {[k \in ks |-> Entry(k, TRUE, AsOptions(list), list)] :
        ks \in {{"^NSEI"}, {"RELIANCE.NS"}, {"^NSEI", "RELIANCE.NS"}},
        list \in {<<>>, OneMonthly}}

\* A process on which both resolvers are called (9 November 2026, 09:00).
InitResolve ==
    InitExpiryAt(ResolveIndexes, {Datetime(Ordinal(2026, 11, 9), 9)})

NextResolve == GetInstrumentKey_Call \/ GetInstrumentKey_Again \/ GetNextExpiry_Call

SpecResolve == InitResolve /\ [][NextResolve]_vars

\* ------------------------------------------------------------ C29
\* Both resolvers have been called with the same symbol.
SameSymbol == kr.pc # "idle" /\ ex.pc = "returned" /\ kr.symbol = ex.symbol

FuturesSymbols == {"Nifty 50", "RELIANCE"}

\* expiry_date as the caller gives it: None, a malformed string, or
\* '2026-12-31'.
GivenExpiries == {NoneDate, BadDate, Ordinal(2026, 12, 31)}

\* No index file, or an index with one monthly future (26 November 2026)
\* for each symbol.
FuturesIndexes ==
    {EmptyIndex,
     [k \in {"^NSEI", "RELIANCE.NS"} |-> Entry(k, TRUE, << >>, OneMonthly)]}

\* data["data"] of the success payloads of a quotes request for the
\* futures key k: empty, the key or its ':' variant with a last_price,
\* the key without one, or another contract.
FuturesShapes(k) ==
    {<< >>,
     <<[key |-> k, priced |-> TRUE]>>,
     <<[key |-> Colon(k), priced |-> TRUE]>>,
     <<[key |-> k, priced |-> FALSE]>>,
     <<[key |-> Key("NSE_FO", ":", "OTHER"), priced |-> TRUE]>>}

\* ------------------------------------------------------------ actions
InitFutures ==
    /\ now = StartClock
    /\ token_file \in InitFiles
    /\ issued = 1
    /\ port = "free"
    /\ st = [c \in Callers |-> Idle]
    /\ INSTRUMENT_MASTER \in FuturesIndexes
    /\ KeysIdle /\ ExpiryIdle /\ DataIdle /\ AnalyticsIdle

\* The caller calls get_futures_data (lines 554-590), once in a process.
GetFuturesData_Begin ==
    /\ md.pc = "idle"
    /\ hist.calls = 0
    /\ \E symbol \in FuturesSymbols, given \in GivenExpiries :
         LET expiry_date ==
                 IF given = NoneDate
                 THEN NextExpiry(INSTRUMENT_MASTER, symbol, "futures", "monthly",
                                 today).date
                 ELSE given
             keys_to_try == KeysToTry(INSTRUMENT_MASTER, symbol, expiry_date)
             m == [NoDataCall EXCEPT !.op = "get_futures_data",
                                     !.symbol = symbol,
                                     !.expiry_date = expiry_date,
                                     !.keys_to_try = keys_to_try]
         IN  md' = IF keys_to_try = << >>
                   THEN DataFinish(m, DataReturned(NoKey, "none"))
                   ELSE NextCandidate(m)
    /\ UNCHANGED <<authVars, INSTRUMENT_MASTER, keyVars, expiryVars, key_map,
                   hist, an>>

\* _make_api_call returns or raises into get_futures_data (lines 597-651):
\* a success with a found key calls get_spot_price, anything else goes on
\* to the next key.
GetFuturesData_Response ==
    /\ md.pc = "futures_wait"
    /\ st[DataCaller].pc = "done"
    /\ st' = [st EXCEPT ![DataCaller] = Idle]
    /\ LET r == st[DataCaller].result
           ok == r.kind = "return" /\ r.data.status = "success"
       IN  \E quote \in IF ok THEN FuturesShapes(md.key) ELSE {<< >>} :
             md' = IF ok /\ FuturesFoundKey(md.key, quote) # NoKey
                   THEN SpotBegun([md EXCEPT !.data = Payload(r.data, md.round, quote)],
                                  INSTRUMENT_MASTER, key_map)
                   ELSE NextCandidate(
                          [md EXCEPT !.seen = Append(@, Tried(md.key, ok, FALSE,
                                                              "unasked"))])
    /\ UNCHANGED <<now, token_file, issued, port, INSTRUMENT_MASTER, keyVars,
                   expiryVars, key_map, hist, an>>

NextFutures ==
    \/ GetFuturesData_Begin
    \/ MakeApiCall_Enter
    \/ GetFuturesData_Response
    \/ GetSpotPrice_Response
    \/ DataCall_End
    \/ ApiStep(DataCaller)

SpecFutures == InitFutures /\ [][NextFutures]_vars

\* ------------------------------------------------------------ C30
\* The place of a key in the order of the claim: the id of the index, its
\* ':' variant, the constructed '|' key, the constructed ':' key.
Rank(k) ==
    IF \E i \in 1 .. Len(FoNames) : k.name = FoNames[i]
    THEN IF k.sep = "|" THEN 1 ELSE 2
    ELSE IF k.sep = "|" THEN 3 ELSE 4

\* A candidate whose response was a success that gave a futures price, with
\* a spot price from get_spot_price.
Succeeded(t) == t.success /\ t.futures /\ t.spot = "priced"

\* get_futures_data has returned.
FuturesDone == md.op = "get_futures_data" /\ md.pc = "done"

\* C30: get_futures_data requests its candidate keys in the order index id,
\* ':' variant of it, constructed '|' key, constructed ':' key; it returns
\* the basis result of the first candidate whose response is a success with
\* a futures price and a spot price and requests no later candidate; it
\* returns the unavailable result only when every candidate failed.
C30_CandidateOrder ==
    md.op = "get_futures_data" =>
      /\ \A i, j \in 1 .. Len(md.seen) :
            i < j => Rank(md.seen[i].key) < Rank(md.seen[j].key)
      /\ \A i \in 1 .. Len(md.seen) :
            /\ md.seen[i].key = md.keys_to_try[i]
            /\ Succeeded(md.seen[i]) => i = Len(md.seen) /\ md.pc = "done"
      /\ FuturesDone =>
            IF md.result.price_key # NoKey
            THEN /\ md.seen # << >>
                 /\ Succeeded(md.seen[Len(md.seen)])
            ELSE /\ Len(md.seen) = Len(md.keys_to_try)
                 /\ \A i \in 1 .. Len(md.seen) : ~Succeeded(md.seen[i])

\* The index id and its ':' variant failed, the constructed '|' key gave
\* the basis result, and the fourth key was not requested.
C30_Witness ==
    /\ FuturesDone
    /\ Len(md.keys_to_try) = 4
    /\ Len(md.seen) = 3
    /\ md.result.price_key # NoKey
    /\ Rank(md.seen[3].key) = 3


\* =====================================================================
\* The wrappers that return an empty result on failure
\* =====================================================================
PortfolioOperations == {"get_holdings", "get_positions"}

\* The caller calls get_holdings or get_positions (lines 407-410, 420-423).
GetPortfolio_Begin ==
    /\ md.pc = "idle"
    /\ hist.calls < MaxCalls
    /\ \E op \in PortfolioOperations :
         md' = [NoDataCall EXCEPT !.op = op, !.pc = "portfolio_call"]
    /\ UNCHANGED <<authVars, INSTRUMENT_MASTER, keyVars, expiryVars, key_map,
                   hist, an>>

\* _make_api_call returns or raises into get_holdings / get_positions
\* (lines 411-418, 424-431).
GetPortfolio_Response ==
    /\ md.pc = "portfolio_wait"
    /\ st[DataCaller].pc = "done"
    /\ st' = [st EXCEPT ![DataCaller] = Idle]
    /\ md' = DataFinish(md, PortfolioResult(st[DataCaller].result))
    /\ UNCHANGED <<now, token_file, issued, port, INSTRUMENT_MASTER, keyVars,
                   expiryVars, key_map, hist, an>>

\* A process without index file that calls the five wrappers.
InitWrappers ==
    /\ now = StartClock
    /\ token_file \in InitFiles
    /\ issued = 1
    /\ port = "free"
    /\ st = [c \in Callers |-> Idle]
    /\ INSTRUMENT_MASTER = EmptyIndex
    /\ KeysIdle /\ ExpiryIdle /\ DataIdle /\ AnalyticsIdle

NextWrappers ==
    \/ GetSpotPrice_Begin
    \/ GetSpotQuote_Begin
    \/ GetFuturesData_Begin
    \/ GetPortfolio_Begin
    \/ MakeApiCall_Enter
    \/ GetSpotPrice_Response
    \/ GetSpotQuote_Response
    \/ GetFuturesData_Response
    \/ GetPortfolio_Response
    \/ DataCall_End
    \/ ApiStep(DataCaller)

SpecWrappers == InitWrappers /\ [][NextWrappers]_vars

\* ------------------------------------------------------------ C31
\* _make_api_call hands its outcome to the wrapper in this step.
ResponseStep ==
    /\ md.pc \in {"spot_wait", "quote_wait", "futures_wait", "portfolio_wait"}
    /\ st[DataCaller].pc = "done"
    /\ md' # md

\* That outcome is a failure: an exception (of the HTTP call or of the
\* authorization) or a payload whose status is not success.
FailedOutcome ==
    \/ st[DataCaller].result.kind = "raise"
    \/ st[DataCaller].result.data.status # "success"

\* The empty result of a wrapper: None, {}, [] or no futures_price.
EmptyResult(res) ==
    /\ res.kind = "return"
    /\ res.price_key = NoKey
    /\ res.rows \in {"none", "empty"}

\* upstox_tokens.json is absent or holds one record with an access token.
TokenFileUsable(file) ==
    /\ Cardinality(file) <= 1
    /\ \A r \in file : "access_token" \in DOMAIN r /\ r.access_token # NoToken

\* C31: get_spot_price, get_spot_quote, get_holdings, get_positions and
\* get_futures_data never raise: when a request of theirs ends with an error
\* payload or an exception they go on to their next candidate key or return
\* their empty result, the key map is as it was before that request, and
\* the token file is absent or holds one whole record throughout.
C31_FailuresScoped ==
    [][/\ md'.pc = "done" => md'.result.kind = "return"
       /\ TokenFileUsable(token_file')
       /\ (ResponseStep /\ FailedOutcome) =>
            /\ key_map' = key_map
            /\ token_file' = token_file
            /\ IF md'.pc = "done" THEN EmptyResult(md'.result)
               ELSE /\ md.op \in {"get_spot_quote", "get_futures_data"}
                    /\ md'.pc \in {"quote_call", "futures_call"}
                    /\ md'.round = md.round + 1]_vars

\* get_futures_data has returned its unavailable result after the requests
\* of both its keys failed, and a token is still persisted.
C31_Witness ==
    /\ md.pc = "done"
    /\ md.op = "get_futures_data"
    /\ Len(md.seen) = 2
    /\ \A i \in 1 .. 2 : ~md.seen[i].success
    /\ EmptyResult(md.result)
    /\ token_file # {}


\* ------------------------------------------------------------ C32
\* calculate_greeks_analysis has returned a result for a chain with rows.
GreeksReturned ==
    /\ an.pc = "returned"
    /\ an.op = "calculate_greeks_analysis"
    /\ an.result.kind = "return"

\* delta * OI of one side of a row, a missing delta counted as 0.
DeltaTimesOi(delta, oi) == IF delta = NoneValue THEN 0 ELSE delta * oi

\* sum(callDelta * callOI) + sum(putDelta * putOI) over the first n rows.
RECURSIVE NetDeltaUpTo(_, _)
NetDeltaUpTo(chain, n) ==
    IF n = 0 THEN 0
    ELSE DeltaTimesOi(chain[n].CE_Delta, chain[n].CE_OI)
         + DeltaTimesOi(chain[n].PE_Delta, chain[n].PE_OI)
         + NetDeltaUpTo(chain, n - 1)

\* callGamma * callOI + putGamma * putOI of a row, missing gammas as 0.
GammaOf(row) ==
    (IF row.CE_Gamma = NoneValue THEN 0 ELSE row.CE_Gamma * row.CE_OI)
    + (IF row.PE_Gamma = NoneValue THEN 0 ELSE row.PE_Gamma * row.PE_OI)

\* C32: calculate_greeks_analysis reports net delta = sum(callDelta*callOI)
\* + sum(putDelta*putOI) with a missing delta counted as 0, classifies it as
\* net long exactly when it is > 0, net short exactly when it is < 0 and
\* neutral exactly when it is 0, and reports as max-gamma strike a strike
\* of the chain whose total gamma no other strike exceeds.
C32_DeltaSignAndMaxGamma ==
    GreeksReturned =>
      LET chain == an.option_chain
          net == NetDeltaUpTo(chain, Len(chain))
      IN  /\ an.result.net_delta = net
          /\ an.result.delta_interpretation = "Net LONG bias" <=> net > 0
          /\ an.result.delta_interpretation = "Net SHORT bias" <=> net < 0
          /\ an.result.delta_interpretation = "Delta neutral" <=> net = 0
          /\ \E i \in 1 .. Len(chain) :
                /\ chain[i].strike = an.result.max_gamma_strike
                /\ \A j \in 1 .. Len(chain) : GammaOf(chain[j]) <= GammaOf(chain[i])

\* Calls of delta 0.6 on 50 contracts against puts of delta -0.5 on 60, and
\* a row whose deltas are missing: neutral; the gamma is largest at the
\* second strike.
C32_Witness ==
    /\ GreeksReturned
    /\ Len(an.option_chain) = 2
    /\ an.option_chain[1].CE_Delta = 6 /\ an.option_chain[1].CE_OI = 50
    /\ an.option_chain[1].PE_Delta = 0 - 5
    /\ an.option_chain[2].CE_Delta = NoneValue
    /\ an.option_chain[2].PE_Delta = NoneValue
    /\ GammaOf(an.option_chain[1]) < GammaOf(an.option_chain[2])
    /\ an.result.delta_interpretation = "Delta neutral"
    /\ an.result.max_gamma_strike = an.option_chain[2].strike


\* ------------------------------------------------------------ C33
\* Caller c, whose request was sent with an older token than the one that
\* is persisted now, runs invalidate_token in this step.
InvalidatesWithOlderToken(c) ==
    /\ st[c].pc = "invalidate"
    /\ st[c].op \in ApiOperations
    /\ st'[c] # st[c]
    /\ token_file # {}
    /\ st[c].headers # NoToken
    /\ LoadTokens.access_token > st[c].headers

\* C33: under concurrent calls, the invalidation that follows the rejection
\* of a request sent with an older token does not delete a newer token that
\* another call has obtained and persisted in the meantime.
C33_NewerTokenKept ==
    [][\A c \in Callers :
          InvalidatesWithOlderToken(c) => token_file' = token_file]_vars


\* ------------------------------------------------------------ C34
\* The canonical key of a named index (lines 848-851).
CanonicalKey(symbol) ==
    CASE symbol = "Nifty 50" -> "^NSEI"
      [] symbol = "Bank Nifty" -> "^NSEBANK"

\* C34: a named index and its canonical key are treated alike: what
\* _get_next_expiry returned for 'Nifty 50' or 'Bank Nifty' is what it gives
\* for '^NSEI' or '^NSEBANK' on the same index and date, and so are the
\* date of _get_fallback_expiry and the futures kind of get_futures_data.
C34_SpellingsAlike ==
    (ex.pc = "returned" /\ ex.symbol \in {"Nifty 50", "Bank Nifty"}) =>
      /\ ex.result.date =
           NextExpiry(INSTRUMENT_MASTER, CanonicalKey(ex.symbol),
                      ex.instrument_category, ex.expiry_type, today).date
      /\ FallbackExpiry(ex.symbol, today)
           = FallbackExpiry(CanonicalKey(ex.symbol), today)
      /\ FuturesKind(ex.symbol) = FuturesKind(CanonicalKey(ex.symbol))


\* =====================================================================
\* _get_next_expiry on every path
\* =====================================================================
\* A process with contract lists on one of a few days, or one that reaches
\* the calendar rule on any day and hour.
InitEveryPath == InitExpiry \/ InitCalendar

SpecEveryPath == InitEveryPath /\ [][NextExpiryStep]_vars

\* ------------------------------------------------------------ C35
\* C35: the date _get_next_expiry returns is never earlier than today,
\* whether it comes from the contract list, from the broadening of a weekly
\* request, or from the calendar rule for an index or a stock symbol, on
\* every date and at every hour.
C35_NeverBeforeToday ==
    ex.pc = "returned" => ex.result.date >= DateOf(today)

\* A list whose first contract is past: the date returned is a later one
\* of the list.
C35_Witness ==
    /\ ex.pc = "returned"
    /\ ex.result.via \in {"list", "broadened"}
    /\ \E k \in DOMAIN INSTRUMENT_MASTER :
          \E i \in 1 .. Len(INSTRUMENT_MASTER[k].FUTIDX) :
             INSTRUMENT_MASTER[k].FUTIDX[i].expiry < DateOf(today)


\* ------------------------------------------------------------ C36
\* A request of get_option_chain for the chain is being made.
ChainRequesting == md.pc \in {"chain_call", "chain_wait"}

\* The key a round requests with: the resolved key, its ':' variant, the
\* NSE_EQ|symbol fallback.
RoundKey(m) ==
    CASE m.round = 1 -> m.chain_key
      [] m.round = 2 -> Colon(m.chain_key)
      [] m.round = 3 -> Key("NSE_EQ", "|", m.symbol)

\* C36: get_option_chain makes at most three _make_api_call rounds for the
\* chain (resolved key, its ':' variant, NSE_EQ|symbol), each of at most
\* two HTTP attempts; for 'Nifty 50' and 'Bank Nifty' it makes one round
\* and raises at once on a non-success status; a later round is made only
\* after the round before it returned a non-success status.
C36_BoundedRounds ==
    md.op = "get_option_chain" =>
      /\ md.round \in 1 .. 3
      /\ Len(md.seen) <= 3
      /\ \A i \in 1 .. Len(md.seen) :
            /\ md.seen[i].n \in 1 .. 2
            /\ \A j \in 1 .. Len(md.seen) : i < j => md.seen[i].round < md.seen[j].round
            /\ i < Len(md.seen) => md.seen[i].status # "success"
      /\ ChainRequesting =>
            /\ md.key = RoundKey(md)
            /\ Len(Https(st[DataCaller])) <= 2
            /\ \A i \in 1 .. Len(md.seen) :
                  md.seen[i].status # "success" /\ md.seen[i].round < md.round
      /\ md.symbol \in NamedChains =>
            /\ md.round = 1
            /\ Len(md.seen) <= 1
            /\ (md.seen # << >> /\ md.seen[1].status # "success") =>
                  /\ md.pc = "done"
                  /\ md.result.kind = "raise"
                  /\ md.result.payload = md.seen[1]

\* The third round of a stock is being made, after two rounds that
\* returned a non-success status, the first of them on its second attempt.
C36_Witness ==
    /\ md.op = "get_option_chain"
    /\ md.pc = "chain_wait"
    /\ md.round = 3
    /\ Len(md.seen) = 2
    /\ md.seen[1].n = 2
    /\ md.key = Key("NSE_EQ", "|", md.symbol)


\* ------------------------------------------------------------ C37
\* The provider's reply to the exchange of caller c holds no access_token
\* in this step.
ExchangeRefused(c) ==
    /\ st[c].pc = "exchange_post"
    /\ st'[c] # st[c]
    /\ st'[c].pc # "exchange_write"

\* C37: when the provider's reply to exchange_code_for_tokens holds no
\* access_token, the operation fails with 'Token exchange failed' and the
\* token store is exactly as before: nothing is written, and a record that
\* exists is not altered.
C37_FailedExchangeKeepsStore ==
    [][\A c \in Callers :
          ExchangeRefused(c) =>
            /\ token_file' = token_file
            /\ st'[c].exc = "Token exchange failed"
            /\ st'[c].pc = "done"
            /\ st[c].op = "exchange_code_for_tokens" =>
                  st'[c].result = Raised("Token exchange failed")]_vars

\* exchange_code_for_tokens has failed and the record of an earlier run is
\* still in the store.
C37_Witness ==
    \E c \in Callers :
        /\ st[c].pc = "done"
        /\ st[c].op = "exchange_code_for_tokens"
        /\ st[c].result = Raised("Token exchange failed")
        /\ token_file = {TokenRecord(1, StartClock - TickStep)}


\* =====================================================================
\* Termination of get_access_token
\* =====================================================================
\* The synchronous host, with every started operation taking its steps:
\* Python runs the statements of a call one after the other, and the
\* browser callback that get_auth_code waits for (line 133) arrives.
SpecLive == Spec /\ \A c \in Callers : WF_vars(Step(c))

\* ------------------------------------------------------------ C38
\* The authorization round trips of the running call.
RoundTrips(s) == Cardinality({i \in 1 .. Len(s.log) : s.log[i].ev = "auth_round_trip"})

\* An invocation of get_access_token by caller c is running.
Running(c) == st[c].op = "get_access_token" /\ st[c].pc \notin {"idle", "done"}

\* It has ended with a token returned or with a failure.
Ended(c) ==
    /\ st[c].op = "get_access_token"
    /\ st[c].pc = "done"
    /\ \/ st[c].result.kind = "return" /\ st[c].result.tok # NoToken
       \/ st[c].result.kind = "raise"

SpotRowsSeen(k, n) ==
    {i \in 1 .. n : /\ UpstoxToApp(an.catalog[i].underlying_symbol) = k
                    /\ IsSpotRow(an.catalog[i])}
PrimaryRowsSeen(k, n) ==
    {i \in SpotRowsSeen(k, n) : IsPrimary(an.catalog[i], k)}
FirstOf(S) == CHOOSE i \in S : \A j \in S : i <= j

\* The SPOT descriptor of symbol k after the first n rows, as the rule says.
ChosenSpot(spot, k, n) ==
    IF SpotRowsSeen(k, n) = {} THEN spot = NoSpot
    ELSE IF PrimaryRowsSeen(k, n) # {}
    THEN \E i \in PrimaryRowsSeen(k, n) :
            spot = SpotDescriptor(an.catalog[i], i)
    ELSE spot = SpotDescriptor(an.catalog[FirstOf(SpotRowsSeen(k, n))],
                               FirstOf(SpotRowsSeen(k, n)))

\* C39: after any sequence of catalog rows a symbol's SPOT descriptor comes
\* from a spot row whose trading symbol equals the symbol's mapped provider
\* symbol if at least one such row was seen, and otherwise from the first
\* spot row seen, in the loop and in the index that is written; a row that
\* is not primary never replaces a descriptor that was already chosen.
C39_SpotSelection ==
    /\ [](an.op = "preprocess_nse_data" =>
            \A k \in AppSymbols :
                /\ ChosenSpot(an.instrument_master[k].SPOT, k, an.count)
                /\ an.pc = "written" =>
                      /\ k \in DOMAIN INSTRUMENT_MASTER =>
                            ChosenSpot(INSTRUMENT_MASTER[k].SPOT, k, an.count)
                      /\ k \notin DOMAIN INSTRUMENT_MASTER =>
                            SpotRowsSeen(k, an.count) = {})
    /\ [][an.op = "preprocess_nse_data" /\ an'.count = an.count + 1 =>
            \A k \in AppSymbols :
                (/\ an.instrument_master[k].SPOT # NoSpot
                 /\ ~IsPrimary(an'.catalog[an'.count], k))
                => an'.instrument_master[k].SPOT
                      = an.instrument_master[k].SPOT]_vars

\* The index was written from a catalog whose first row is a spot row of
\* RELIANCE that is not primary, whose second row is the primary one and
\* whose third row is again not primary: the descriptor is the second row's.
C39_Witness ==
    /\ an.op = "preprocess_nse_data"
    /\ an.pc = "written"
    /\ Len(an.catalog) = 3
    /\ SpotRowsSeen("RELIANCE.NS", 3) = {1, 2, 3}
    /\ PrimaryRowsSeen("RELIANCE.NS", 3) = {2}
    /\ INSTRUMENT_MASTER["RELIANCE.NS"].SPOT
          = SpotDescriptor(an.catalog[2], 2)

=============================================================================
